---- MODULE Spec2Model ----
(***************************************************************************)
(* Bookstore backend (Express + Prisma): the soft-delete / restore         *)
(* lifecycle of genres and books, the referential guards, order creation   *)
(* and the bearer-token gate, as a state machine over the relational       *)
(* store.  One action per HTTP request; a request that passes the gate     *)
(* runs its handler to completion (Spec), or await by await (SpecConc).    *)
(***************************************************************************)
EXTENDS Integers, Sequences, FiniteSets, Bags, TLC

VARIABLES users, genres, books, orders, order_items, now, last, pending

vars == <<users, genres, books, orders, order_items, now, last, pending>>

----------------------------------------------------------------------------
(* Bounds *)

\* number of write requests on genres, books and orders the clock `now` counts
MaxTime == 4
\* longest items array of a createTransaction request
MaxItems == 2
\* number of orders the store may hold
MaxOrders == 1
\* number of requests that may be in flight together (SpecConc)
MaxInflight == 2
\* the value of the clock `now` at which an interleaved run is cut (SpecConc)
MaxConcTime == 3

----------------------------------------------------------------------------
(* JavaScript values *)

\* a nullable column / an optional local: <<>> is null, <<x>> is x
Null == <<>>
Some(x) == <<x>>
\* a body field that is absent from the request
Undefined == "undefined"
\* !s for a string-valued body field
Falsy(s) == s \in {Undefined, ""}

\* numbers are carried in halves: Whole(k) is k, Half(k) is k + 0.5
Whole(k) == 2 * k
Half(k) == 2 * k + 1
IsInteger(x) == x % 2 = 0

\* a numeric body field as sent: absent, a non-numeric string, or a number
UndefinedNum == [t |-> "undefined", n |-> 0]
NotANumber == [t |-> "string", n |-> 0]
Num(x) == [t |-> "number", n |-> x]
\* Number(v): NaN for undefined and for a non-numeric string
ToNumber(v) == IF v.t = "number" THEN [nan |-> FALSE, n |-> v.n] ELSE [nan |-> TRUE, n |-> 0]

\* the year returned by new Date().getFullYear()
ThisYear == 2025

----------------------------------------------------------------------------
(* Requests: paths and the Authorization header *)

\* a URL path, one character per element, so that startsWith is a prefix test
AuthPrefix == <<"/", "a", "u", "t", "h">>
HealthPrefix == <<"/", "h", "e", "a", "l", "t", "h">>
RegisterPath == AuthPrefix \o <<"/", "r", "e", "g", "i", "s", "t", "e", "r">>
GenrePath == <<"/", "g", "e", "n", "r", "e">>
BooksPath == <<"/", "b", "o", "o", "k", "s">>
TransactionsPath == <<"/", "t", "r", "a", "n", "s", "a", "c", "t", "i", "o", "n", "s">>
startsWith(s, prefix) == Len(s) >= Len(prefix) /\ SubSeq(s, 1, Len(prefix)) = prefix

\* a token: whether the server's secret signed it, whether it is still within
\* its hour, and the user id it carries
Token(sig, exp, id) == [sig |-> sig, exp |-> exp, id |-> id]
NoHeader == [present |-> FALSE, scheme |-> "", token |-> Token("forged", "expired", "")]
Header(scheme, token) == [present |-> TRUE, scheme |-> scheme, token |-> token]
\* jwt.verify(token, secret): succeeds on a token the secret signed that has not expired
jwtVerify(token) == token.sig = "valid" /\ token.exp = "live"

\* the headers a client can send: none, another scheme, a forged or an expired
\* token, and the token login issues to a registered user
Headers ==
  {NoHeader,
   Header("Basic", Token("valid", "live", "u1")),
   Header("Bearer", Token("forged", "live", "u1")),
   Header("Bearer", Token("valid", "expired", "u1"))}
  \cup {Header("Bearer", Token("valid", "live", u.id)) : u \in users}

\* authenticateUser without the verification: any Authorization header passes
authenticateUserPresenceOnly(path, h) ==
  IF startsWith(path, AuthPrefix) THEN TRUE ELSE h.present

\* authenticateUser of middleware/authMiddleware.ts: TRUE when next() is called
authenticateUser(path, h) ==
  IF startsWith(path, AuthPrefix) THEN TRUE
  ELSE IF ~h.present \/ h.scheme # "Bearer" THEN FALSE
  ELSE jwtVerify(h.token)

\* the other authenticateUser of the repository, which also lets /health through
authenticateUserOriginalUrl(path, h) ==
  IF startsWith(path, AuthPrefix) \/ startsWith(path, HealthPrefix) THEN TRUE
  ELSE IF ~h.present \/ h.scheme # "Bearer" THEN FALSE
  ELSE jwtVerify(h.token)

\* app.use(authenticateUser): what the mounted middleware can answer for a request
Gate(path, h) == {authenticateUser(path, h), authenticateUserOriginalUrl(path, h)}

\* the response (op, status, id of the row in data) to the last request that wrote
Response(op, status, id) == [op |-> op, status |-> status, id |-> id]
NoData == ""

\* the middleware answered 401 and no handler runs, or the handler answered
\* without a write: nothing of the server's state changes
Unauthorized == UNCHANGED vars
NoWrite == UNCHANGED vars

----------------------------------------------------------------------------
(* Requests in flight: a handler between two awaits, with what it has read *)

NothingSeen == [existing |-> Null, genre |-> Null, active |-> Null, deleted |-> Null]
InFlight(op, pc, id, name, body, seen) ==
  [op |-> op, pc |-> pc, id |-> id, name |-> name, body |-> body, seen |-> seen]
\* the requests in flight are a bag: two of them may be the same request
NoRequests == EmptyBag

----------------------------------------------------------------------------
(* users *)

Emails == {"e1"}
UserIds == <<"u1", "u2">>
EmailInputs == Emails \cup {Undefined}
PasswordInputs == {"pw", Undefined}

\* prisma.users.findUnique({ where: { email } })
usersFindUniqueEmail(email) ==
  LET S == {u \in users : u.email = email} IN IF S = {} THEN Null ELSE Some(CHOOSE u \in S : TRUE)
\* prisma.users.findUnique({ where: { id } })
usersFindUniqueId(id) ==
  LET S == {u \in users : u.id = id} IN IF S = {} THEN Null ELSE Some(CHOOSE u \in S : TRUE)

\* register: status, id of the new user, users afterwards; the requests tried
\* carry no username, and the row gets username || "Anonymous"
registerRes(email, password) ==
  IF Falsy(email) \/ Falsy(password) THEN [status |-> 400, id |-> NoData, users |-> users, wrote |-> FALSE]
  ELSE IF usersFindUniqueEmail(email) # Null THEN [status |-> 400, id |-> NoData, users |-> users, wrote |-> FALSE]
  ELSE LET id == UserIds[Cardinality(users) + 1] IN
       [status |-> 201, id |-> id, users |-> users \cup {[id |-> id, username |-> "Anonymous", email |-> email]}, wrote |-> TRUE]

\* register's answer becomes the next state
UserStep(op, r) ==
  IF ~r.wrote THEN NoWrite
  ELSE /\ users' = r.users
       /\ last' = Response(op, r.status, r.id)
       /\ UNCHANGED <<genres, books, orders, order_items, now, pending>>

register(h) ==
  \E pass \in Gate(RegisterPath, h) :
       IF ~pass THEN Unauthorized
       ELSE \E email \in EmailInputs, password \in PasswordInputs :
              UserStep("register", registerRes(email, password))

----------------------------------------------------------------------------
(* genres *)

GenreNames == {"Fiction", "Horror"}
GenreIds == <<"g1", "g2", "g3">>
\* an id no genre row carries
NoSuchGenre == "g9"
NameInputs == GenreNames \cup {Undefined, ""}
GenreIdInputs == {"g1", "g2", NoSuchGenre}

\* prisma.genres.findUnique({ where: { name } })
genresFindUniqueName(name) ==
  LET S == {g \in genres : g.name = name} IN IF S = {} THEN Null ELSE Some(CHOOSE g \in S : TRUE)
\* prisma.genres.findUnique({ where: { id } })
genresFindUniqueId(id) ==
  LET S == {g \in genres : g.id = id} IN IF S = {} THEN Null ELSE Some(CHOOSE g \in S : TRUE)

\* the table without its unique index on name
genresNameKeyMissing(rows) == FALSE

\* CREATE UNIQUE INDEX genres_name_key: a write that would give two rows one name fails (P2002)
genresNameKeyViolated(rows) == \E a, b \in rows : a # b /\ a.id # b.id /\ a.name = b.name

\* prisma.genres.update({ where: { id }, data }): the rows afterwards
genresUpdate(id, data) ==
  {IF g.id = id THEN [n \in DOMAIN g |-> IF n \in DOMAIN data THEN data[n] ELSE g[n]] ELSE g : g \in genres}

\* prisma.genres.create({ data: { name, deleted_at: null } }): the rows afterwards
genresCreate(name) ==
  genres \cup {[id |-> GenreIds[Cardinality(genres) + 1], name |-> name, deleted_at |-> Null]}

\* what a handler answers: status, id of the row in data, the table afterwards,
\* and whether it wrote
GenreResult(status, id, rows, wrote) == [status |-> status, id |-> id, genres |-> rows, wrote |-> wrote]

\* createGenre without the branch that refuses an active row: it restores whatever it finds
createGenreWriteNoConflict(name, existing) ==
  IF existing # Null
  THEN GenreResult(200, existing[1].id, genresUpdate(existing[1].id, [deleted_at |-> Null]), TRUE)
  ELSE IF genresNameKeyViolated(genresCreate(name))
  THEN GenreResult(500, NoData, genres, FALSE)
  ELSE GenreResult(201, GenreIds[Cardinality(genres) + 1], genresCreate(name), TRUE)

\* createGenre from the lookup on: existing is what findUnique({ where: { name } }) returned
createGenreWrite(name, existing) ==
  IF existing # Null /\ existing[1].deleted_at = Null
  THEN GenreResult(400, NoData, genres, FALSE)
  ELSE IF existing # Null /\ existing[1].deleted_at # Null
  THEN GenreResult(200, existing[1].id, genresUpdate(existing[1].id, [deleted_at |-> Null]), TRUE)
  ELSE IF genresNameKeyViolated(genresCreate(name))
  THEN GenreResult(500, NoData, genres, FALSE)
  ELSE GenreResult(201, GenreIds[Cardinality(genres) + 1], genresCreate(name), TRUE)

\* createGenre, the whole handler
createGenreRes(h, name) ==
  IF ~h.present THEN GenreResult(401, NoData, genres, FALSE)
  ELSE IF Falsy(name) THEN GenreResult(400, NoData, genres, FALSE)
  ELSE createGenreWrite(name, genresFindUniqueName(name))

\* updateGenre from the lookup on: genre is what findUnique({ where: { id } }) returned
updateGenreWrite(genre_id, name, genre) ==
  IF genre = Null THEN GenreResult(404, NoData, genres, FALSE)
  ELSE LET rows == genresUpdate(genre_id, [name |-> IF Falsy(name) THEN genre[1].name ELSE name]) IN
       IF genresNameKeyViolated(rows) THEN GenreResult(500, NoData, genres, FALSE)
       ELSE GenreResult(200, genre_id, rows, TRUE)

updateGenreRes(h, genre_id, name) ==
  IF ~h.present THEN GenreResult(401, NoData, genres, FALSE)
  ELSE updateGenreWrite(genre_id, name, genresFindUniqueId(genre_id))

\* the dependents lookup with deleted_at: null added
booksFindManyGenreActive(genre_id) == {b \in books : b.genre_id = genre_id /\ b.deleted_at = Null}

\* prisma.books.findMany({ where: { genre_id } }): deleted rows included
booksFindManyGenre(genre_id) == {b \in books : b.genre_id = genre_id}

\* deleteGenre without the dependents check
deleteGenreResUnguarded(h, genre_id) ==
  IF ~h.present THEN GenreResult(401, NoData, genres, FALSE)
  ELSE IF genresFindUniqueId(genre_id) = Null THEN GenreResult(404, NoData, genres, FALSE)
  ELSE GenreResult(200, genre_id, genresUpdate(genre_id, [deleted_at |-> Some(now + 1)]), TRUE)

deleteGenreRes(h, genre_id) ==
  IF ~h.present THEN GenreResult(401, NoData, genres, FALSE)
  ELSE IF genresFindUniqueId(genre_id) = Null THEN GenreResult(404, NoData, genres, FALSE)
  ELSE IF Cardinality(booksFindManyGenre(genre_id)) > 0 THEN GenreResult(400, NoData, genres, FALSE)
  ELSE GenreResult(200, genre_id, genresUpdate(genre_id, [deleted_at |-> Some(now + 1)]), TRUE)

\* a genre handler's answer becomes the next state; a write advances the clock.
\* The run is cut after MaxTime writes: the handlers take no request from then on
GenreStep(op, r) ==
  IF ~r.wrote THEN NoWrite
  ELSE /\ now < MaxTime
       /\ genres' = r.genres
       /\ now' = now + 1
       /\ last' = Response(op, r.status, r.id)
       /\ UNCHANGED <<users, books, orders, order_items, pending>>

createGenre(h) ==
  /\ now < MaxTime
  /\ \E pass \in Gate(GenrePath, h) :
       IF ~pass THEN Unauthorized
       ELSE \E name \in NameInputs : GenreStep("createGenre", createGenreRes(h, name))

updateGenre(h) ==
  /\ now < MaxTime
  /\ \E pass \in Gate(GenrePath, h) :
       IF ~pass THEN Unauthorized
       ELSE \E genre_id \in GenreIdInputs, name \in NameInputs : GenreStep("updateGenre", updateGenreRes(h, genre_id, name))

deleteGenre(h) ==
  /\ now < MaxTime
  /\ \E pass \in Gate(GenrePath, h) :
       IF ~pass THEN Unauthorized
       ELSE \E genre_id \in GenreIdInputs : GenreStep("deleteGenre", deleteGenreRes(h, genre_id))

----------------------------------------------------------------------------
(* books *)

Titles == {"Dune", "Emma"}
BookIds == <<"b1", "b2", "b3">>
\* an id no book row carries
NoSuchBook == "b9"
BookIdInputs == {"b1", "b2", NoSuchBook}

\* two request bodies that differ in every field but title and genre_id
BodyA(title, genre_id) ==
  [title |-> title, writer |-> "w1", publisher |-> "p1", description |-> "d1",
   publication_year |-> Num(Whole(2000)), price |-> Num(Whole(10)),
   stock_quantity |-> Num(Whole(5)), genre_id |-> genre_id]
BodyB(title, genre_id) ==
  [title |-> title, writer |-> "w2", publisher |-> "p2", description |-> "",
   publication_year |-> Num(Whole(2001)), price |-> Num(Whole(0)),
   stock_quantity |-> Num(Whole(0)), genre_id |-> genre_id]

\* BodyA with one field missing, malformed or out of range
BadBodies(title) ==
  LET a == BodyA(title, "g1") IN
  {[a EXCEPT !.title = Undefined], [a EXCEPT !.writer = ""], [a EXCEPT !.publisher = Undefined],
   [a EXCEPT !.genre_id = Undefined], [a EXCEPT !.genre_id = NoSuchGenre]}
  \cup {[a EXCEPT !.publication_year = v] :
          v \in {UndefinedNum, NotANumber, Num(Whole(-1)), Num(Whole(ThisYear + 2)), Num(Half(2000))}}
  \cup {[a EXCEPT !.price = v] :
          v \in {UndefinedNum, NotANumber, Num(Whole(-1)), Num(Half(-1)), Num(Half(0))}}
  \cup {[a EXCEPT !.stock_quantity = v] :
          v \in {UndefinedNum, NotANumber, Num(Whole(-1)), Num(Half(1))}}

\* the bodies POST /books is tried with
BookBodies ==
  {BodyA(t, "g1") : t \in Titles} \cup {BodyB(t, g) : t \in Titles, g \in {"g1", "g2"}}
  \cup {[BodyA("Dune", "g1") EXCEPT !.description = Undefined]} \cup BadBodies("Dune")

\* a PATCH body: every field absent
NoFields ==
  [title |-> Undefined, writer |-> Undefined, publisher |-> Undefined, description |-> Undefined,
   publication_year |-> UndefinedNum, price |-> UndefinedNum, stock_quantity |-> UndefinedNum,
   genre_id |-> Undefined]

\* the bodies PATCH /books/:book_id is tried with
BookPatches ==
  {NoFields, [NoFields EXCEPT !.description = ""]}
  \cup {[NoFields EXCEPT !.title = t] : t \in Titles}
  \cup {[NoFields EXCEPT !.publication_year = v] : v \in {NotANumber, Num(Half(2000))}}
  \cup {[NoFields EXCEPT !.price = v] : v \in {NotANumber, Num(Whole(-1)), Num(Whole(0))}}
  \cup {[NoFields EXCEPT !.stock_quantity = v] : v \in {NotANumber, Num(Whole(-1)), Num(Half(1)), Num(Whole(0))}}
  \cup {[NoFields EXCEPT !.genre_id = g] : g \in {"g2", NoSuchGenre}}
  \cup {[NoFields EXCEPT !.price = Num(Whole(0)), !.stock_quantity = Num(Half(1))],
        [NoFields EXCEPT !.title = "Emma", !.price = Num(Whole(-1))]}

\* PATCH requests: every body on the ids a book may carry, one on an unknown id
BookPatchRequests == ({"b1", "b2"} \X BookPatches) \cup {<<NoSuchBook, NoFields>>}

\* prisma.books.findFirst({ where: { title, deleted_at: null } })
booksFindFirstActiveTitle(title) ==
  LET S == {b \in books : b.title = title /\ b.deleted_at = Null} IN
  IF S = {} THEN Null ELSE Some(CHOOSE b \in S : TRUE)
\* the lookup of a deleted row with its NOT dropped
booksFindFirstDeletedTitleNoNot(title) ==
  LET S == {b \in books : b.title = title /\ b.deleted_at = Null} IN
  IF S = {} THEN Null ELSE Some(CHOOSE b \in S : TRUE)

\* prisma.books.findFirst({ where: { title, NOT: { deleted_at: null } } })
booksFindFirstDeletedTitle(title) ==
  LET S == {b \in books : b.title = title /\ b.deleted_at # Null} IN
  IF S = {} THEN Null ELSE Some(CHOOSE b \in S : TRUE)
\* prisma.books.findFirst({ where: { id, deleted_at: null } })
booksFindFirstActiveId(id) ==
  LET S == {b \in books : b.id = id /\ b.deleted_at = Null} IN
  IF S = {} THEN Null ELSE Some(CHOOSE b \in S : TRUE)
\* prisma.books.findUnique({ where: { id } })
booksFindUniqueId(id) ==
  LET S == {b \in books : b.id = id} IN IF S = {} THEN Null ELSE Some(CHOOSE b \in S : TRUE)

\* CREATE UNIQUE INDEX books_title_key: a write that would give two rows one title fails (P2002)
booksTitleKeyViolated(rows) == \E a, b \in rows : a # b /\ a.id # b.id /\ a.title = b.title

\* prisma.books.update({ where: { id }, data }): the rows afterwards
booksUpdate(id, data) ==
  {IF b.id = id THEN [n \in DOMAIN b |-> IF n \in DOMAIN data THEN data[n] ELSE b[n]] ELSE b : b \in books}

\* description || null
descriptionOrNull(description) == IF Falsy(description) THEN Null ELSE Some(description)

\* the data of the restoring update and of the create, but for title and deleted_at
createBookData(body) ==
  [writer |-> body.writer, publisher |-> body.publisher,
   description |-> descriptionOrNull(body.description),
   publication_year |-> ToNumber(body.publication_year).n,
   price |-> ToNumber(body.price).n,
   stock_quantity |-> ToNumber(body.stock_quantity).n,
   genre_id |-> body.genre_id]

\* prisma.books.create({ data }): the rows afterwards
booksCreate(body) ==
  LET d == createBookData(body) IN
  books \cup {[id |-> BookIds[Cardinality(books) + 1], title |-> body.title, writer |-> d.writer,
               publisher |-> d.publisher, description |-> d.description,
               publication_year |-> d.publication_year, price |-> d.price,
               stock_quantity |-> d.stock_quantity, genre_id |-> d.genre_id, deleted_at |-> Null]}

BookResult(status, id, rows, wrote) == [status |-> status, id |-> id, books |-> rows, wrote |-> wrote]

\* the checks createBook makes on the body before it reads the store: 0 when they pass
createBookValidate(body) ==
  LET pubYear == ToNumber(body.publication_year)
      bookPrice == ToNumber(body.price)
      stockQty == ToNumber(body.stock_quantity)
  IN
  IF \/ Falsy(body.title) \/ Falsy(body.writer) \/ Falsy(body.publisher)
     \/ body.publication_year = UndefinedNum \/ body.price = UndefinedNum
     \/ body.stock_quantity = UndefinedNum \/ Falsy(body.genre_id) THEN 400
  ELSE IF pubYear.nan \/ bookPrice.nan \/ stockQty.nan THEN 400
  ELSE IF bookPrice.n < 0 THEN 400
  ELSE IF stockQty.n < 0 \/ ~IsInteger(stockQty.n) THEN 400
  ELSE IF pubYear.n < 0 \/ pubYear.n > Whole(ThisYear + 1) THEN 400
  ELSE 0

\* createBook's writes without the lookup of the genre
createBookWriteAnyGenre(body, genre, existingActive, existingDeleted) ==
  IF existingActive # Null THEN BookResult(409, NoData, books, FALSE)
  ELSE IF ~IsInteger(ToNumber(body.publication_year).n) THEN BookResult(500, NoData, books, FALSE)
  ELSE IF existingDeleted # Null
  THEN BookResult(200, existingDeleted[1].id,
                  booksUpdate(existingDeleted[1].id, [deleted_at |-> Null] @@ createBookData(body)), TRUE)
  ELSE IF booksTitleKeyViolated(booksCreate(body)) THEN BookResult(409, NoData, books, FALSE)
  ELSE BookResult(201, BookIds[Cardinality(books) + 1], booksCreate(body), TRUE)

\* createBook from the lookups on: what the three reads returned
createBookWrite(body, genre, existingActive, existingDeleted) ==
  IF genre = Null THEN BookResult(404, NoData, books, FALSE)
  ELSE IF existingActive # Null THEN BookResult(409, NoData, books, FALSE)
  \* publication_year is an Int column: the client refuses a fraction and the handler answers 500
  ELSE IF ~IsInteger(ToNumber(body.publication_year).n) THEN BookResult(500, NoData, books, FALSE)
  ELSE IF existingDeleted # Null
  THEN BookResult(200, existingDeleted[1].id,
                  booksUpdate(existingDeleted[1].id, [deleted_at |-> Null] @@ createBookData(body)), TRUE)
  ELSE IF booksTitleKeyViolated(booksCreate(body)) THEN BookResult(409, NoData, books, FALSE)
  ELSE BookResult(201, BookIds[Cardinality(books) + 1], booksCreate(body), TRUE)

\* createBook, the whole handler
createBookRes(h, body) ==
  IF ~h.present THEN BookResult(401, NoData, books, FALSE)
  ELSE IF createBookValidate(body) # 0 THEN BookResult(createBookValidate(body), NoData, books, FALSE)
  ELSE createBookWrite(body, genresFindUniqueId(body.genre_id),
                       booksFindFirstActiveTitle(body.title), booksFindFirstDeletedTitle(body.title))

\* updateBook's checks without Number.isInteger on stock_quantity
updateBookValidateNoInteger(body) ==
  IF body.publication_year # UndefinedNum /\ ToNumber(body.publication_year).nan THEN 400
  ELSE IF body.price # UndefinedNum /\ ToNumber(body.price).nan THEN 400
  ELSE IF body.price # UndefinedNum /\ ToNumber(body.price).n < 0 THEN 400
  ELSE IF body.stock_quantity # UndefinedNum /\ ToNumber(body.stock_quantity).nan THEN 400
  ELSE IF body.stock_quantity # UndefinedNum /\ ToNumber(body.stock_quantity).n < 0 THEN 400
  ELSE 0

\* the checks updateBook makes on the body: 0 when they pass
updateBookValidate(body) ==
  IF body.publication_year # UndefinedNum /\ ToNumber(body.publication_year).nan THEN 400
  ELSE IF body.price # UndefinedNum /\ ToNumber(body.price).nan THEN 400
  ELSE IF body.price # UndefinedNum /\ ToNumber(body.price).n < 0 THEN 400
  ELSE IF body.stock_quantity # UndefinedNum /\ ToNumber(body.stock_quantity).nan THEN 400
  ELSE IF body.stock_quantity # UndefinedNum
          /\ (ToNumber(body.stock_quantity).n < 0 \/ ~IsInteger(ToNumber(body.stock_quantity).n)) THEN 400
  ELSE 0

\* the partial data built with if (field) in place of if (field !== undefined):
\* an empty string and a zero are left out
updateBookDataTruthy(body) ==
  LET strings == {n \in {"title", "writer", "publisher", "description", "genre_id"} : ~Falsy(body[n])}
      numbers == {n \in {"publication_year", "price", "stock_quantity"} :
                    body[n] # UndefinedNum /\ ToNumber(body[n]).n # 0}
  IN [n \in strings \cup numbers |->
        IF n \in numbers THEN ToNumber(body[n]).n
        ELSE IF n = "description" THEN Some(body[n])
        ELSE body[n]]

\* the partial data updateBook builds: only the fields the body carries
updateBookData(body) ==
  LET strings == {n \in {"title", "writer", "publisher", "description", "genre_id"} : body[n] # Undefined}
      numbers == {n \in {"publication_year", "price", "stock_quantity"} : body[n] # UndefinedNum}
  IN [n \in strings \cup numbers |->
        IF n \in numbers THEN ToNumber(body[n]).n
        ELSE IF n = "description" THEN Some(body[n])
        ELSE body[n]]

\* updateBook that writes each field as it comes to it: when a later field fails
\* its check, the title, writer, publisher and description are already stored
updateBookWriteFieldByField(book_id, body, existing, genre) ==
  IF existing = Null THEN BookResult(404, NoData, books, FALSE)
  ELSE IF updateBookValidate(body) # 0
  THEN BookResult(updateBookValidate(body), NoData,
                  booksUpdate(book_id, [n \in DOMAIN updateBookData(body)
                                              \cap {"title", "writer", "publisher", "description"} |->
                                          updateBookData(body)[n]]), TRUE)
  ELSE IF body.genre_id # Undefined /\ genre = Null THEN BookResult(400, NoData, books, FALSE)
  ELSE IF body.publication_year # UndefinedNum /\ ~IsInteger(ToNumber(body.publication_year).n)
  THEN BookResult(500, NoData, books, FALSE)
  ELSE IF booksTitleKeyViolated(booksUpdate(book_id, updateBookData(body)))
  THEN BookResult(409, NoData, books, FALSE)
  ELSE BookResult(200, book_id, booksUpdate(book_id, updateBookData(body)), TRUE)

\* updateBook from the first lookup on: existing is what findFirst({ id, deleted_at: null })
\* returned, genre what findUnique({ id: genre_id }) returned
updateBookWrite(book_id, body, existing, genre) ==
  IF existing = Null THEN BookResult(404, NoData, books, FALSE)
  ELSE IF updateBookValidate(body) # 0 THEN BookResult(updateBookValidate(body), NoData, books, FALSE)
  ELSE IF body.genre_id # Undefined /\ genre = Null THEN BookResult(400, NoData, books, FALSE)
  ELSE IF body.publication_year # UndefinedNum /\ ~IsInteger(ToNumber(body.publication_year).n)
  THEN BookResult(500, NoData, books, FALSE)
  ELSE IF booksTitleKeyViolated(booksUpdate(book_id, updateBookData(body)))
  THEN BookResult(409, NoData, books, FALSE)
  ELSE BookResult(200, book_id, booksUpdate(book_id, updateBookData(body)), TRUE)

updateBookRes(h, book_id, body) ==
  IF ~h.present THEN BookResult(401, NoData, books, FALSE)
  ELSE updateBookWrite(book_id, body, booksFindFirstActiveId(book_id), genresFindUniqueId(body.genre_id))

\* include: { order_items: { select: { id: true }, take: 1 } }
orderItemsOfBook(book_id) == {i \in DOMAIN order_items : order_items[i].book_id = book_id}

\* deleteBook that lets a single order item through
deleteBookResMoreThanOne(h, book_id) ==
  IF ~h.present THEN BookResult(401, NoData, books, FALSE)
  ELSE IF booksFindFirstActiveId(book_id) = Null THEN BookResult(404, NoData, books, FALSE)
  ELSE IF Cardinality(orderItemsOfBook(book_id)) > 1 THEN BookResult(400, NoData, books, FALSE)
  ELSE BookResult(200, book_id, booksUpdate(book_id, [deleted_at |-> Some(now + 1)]), TRUE)

deleteBookRes(h, book_id) ==
  IF ~h.present THEN BookResult(401, NoData, books, FALSE)
  ELSE IF booksFindFirstActiveId(book_id) = Null THEN BookResult(404, NoData, books, FALSE)
  ELSE IF Cardinality(orderItemsOfBook(book_id)) > 0 THEN BookResult(400, NoData, books, FALSE)
  ELSE BookResult(200, book_id, booksUpdate(book_id, [deleted_at |-> Some(now + 1)]), TRUE)

\* a book handler's answer becomes the next state; a write advances the clock
BookStep(op, r) ==
  IF ~r.wrote THEN NoWrite
  ELSE /\ now < MaxTime
       /\ books' = r.books
       /\ now' = now + 1
       /\ last' = Response(op, r.status, r.id)
       /\ UNCHANGED <<users, genres, orders, order_items, pending>>

createBook(h) ==
  /\ now < MaxTime
  /\ \E pass \in Gate(BooksPath, h) :
       IF ~pass THEN Unauthorized
       ELSE \E body \in BookBodies : BookStep("createBook", createBookRes(h, body))

updateBook(h) ==
  /\ now < MaxTime
  /\ \E pass \in Gate(BooksPath, h) :
       IF ~pass THEN Unauthorized
       ELSE \E req \in BookPatchRequests : BookStep("updateBook", updateBookRes(h, req[1], req[2]))

deleteBook(h) ==
  /\ now < MaxTime
  /\ \E pass \in Gate(BooksPath, h) :
       IF ~pass THEN Unauthorized
       ELSE \E book_id \in BookIdInputs : BookStep("deleteBook", deleteBookRes(h, book_id))

----------------------------------------------------------------------------
(* orders *)

OrderIds == <<"o1", "o2", "o3">>
UserIdInputs == {"u1", "u2", Undefined}

Item(book_id, quantity) == [book_id |-> book_id, quantity |-> quantity]
\* the usual item: one copy of the first book
PlainItem == Item("b1", Num(Whole(1)))
\* items naming another, an unknown or no book, or with an odd quantity
OtherItems ==
  {Item(b, Num(Whole(1))) : b \in {"b2", NoSuchBook, Undefined}}
  \cup {Item("b1", q) : q \in {NotANumber, Num(Whole(0)), Num(Half(1))}}
\* the items arrays POST /transactions is tried with: up to MaxItems items, all
\* the usual one but, at most, the last
ItemLists ==
  UNION {{[i \in 1..n |-> PlainItem]} : n \in 0..MaxItems}
  \cup UNION {{[i \in 1..n |-> IF i = n THEN o ELSE PlainItem] : o \in OtherItems} : n \in 1..MaxItems}

\* for (const item of items) if (!item.book_id || typeof item.quantity !== "number")
itemMalformed(item) == Falsy(item.book_id) \/ item.quantity.t # "number"

\* prisma.order_items.create for one item: it fails when quantity is no Int
\* (client validation) or book_id names no row (order_items_book_id_fkey)
orderItemCreateFails(item) ==
  ~IsInteger(item.quantity.n) \/ booksFindUniqueId(item.book_id) = Null

\* Promise.all(items.map(item => prisma.order_items.create(...))): every create
\* is issued; the rows of those that succeed
orderItemsCreated(orderId, items) ==
  LET ok == SelectSeq(items, LAMBDA item : ~orderItemCreateFails(item)) IN
  [i \in 1..Len(ok) |-> [order_id |-> orderId, book_id |-> ok[i].book_id, quantity |-> ok[i].quantity.n]]

OrderResult(status, id, o, oi, wrote) ==
  [status |-> status, id |-> id, orders |-> o, order_items |-> oi, wrote |-> wrote]
NothingWritten(status) == OrderResult(status, NoData, orders, order_items, FALSE)

\* the order row and the item rows are written one create at a time
createTransactionWrite(orderId, user_id, items) ==
  \* orders_user_id_fkey: prisma.orders.create fails when user_id names no row
  IF usersFindUniqueId(user_id) = Null THEN NothingWritten(500)
  ELSE OrderResult(IF \E i \in 1..Len(items) : orderItemCreateFails(items[i]) THEN 500 ELSE 201,
                   IF \E i \in 1..Len(items) : orderItemCreateFails(items[i]) THEN NoData ELSE orderId,
                   Append(orders, [id |-> orderId, user_id |-> user_id]),
                   order_items \o orderItemsCreated(orderId, items), TRUE)

\* createTransaction of controllers/transactionController.ts
createTransactionRes(h, orderId, user_id, items) ==
  IF ~h.present THEN NothingWritten(401)
  ELSE IF Falsy(user_id) \/ Len(items) = 0 THEN NothingWritten(400)
  ELSE IF \E i \in 1..Len(items) : itemMalformed(items[i]) THEN NothingWritten(400)
  ELSE createTransactionWrite(orderId, user_id, items)

\* the createTransaction that looks the user and every book up first
createTransactionCheckedRes(h, orderId, user_id, items) ==
  IF ~h.present THEN NothingWritten(401)
  ELSE IF Falsy(user_id) \/ Len(items) = 0 THEN NothingWritten(400)
  ELSE IF \E i \in 1..Len(items) : itemMalformed(items[i]) THEN NothingWritten(400)
  ELSE IF usersFindUniqueId(user_id) = Null THEN NothingWritten(404)
  ELSE IF \E i \in 1..Len(items) : booksFindUniqueId(items[i].book_id) = Null THEN NothingWritten(404)
  ELSE createTransactionWrite(orderId, user_id, items)

OrderStep(op, r) ==
  IF ~r.wrote THEN NoWrite
  ELSE /\ now < MaxTime /\ Len(orders) < MaxOrders
       /\ orders' = r.orders
       /\ order_items' = r.order_items
       /\ now' = now + 1
       /\ last' = Response(op, r.status, r.id)
       /\ UNCHANGED <<users, genres, books, pending>>

\* a fresh order id (a bcrypt hash or a uuid): ids are opaque, the next unused one stands for any
FreshOrderId == OrderIds[Len(orders) + 1]

createTransaction(h) ==
  /\ now < MaxTime /\ Len(orders) < MaxOrders
  /\ \E pass \in Gate(TransactionsPath, h) :
       IF ~pass THEN Unauthorized
       ELSE \E user_id \in UserIdInputs, items \in ItemLists :
              OrderStep("createTransaction", createTransactionRes(h, FreshOrderId, user_id, items))

createTransactionChecked(h) ==
  /\ now < MaxTime /\ Len(orders) < MaxOrders
  /\ \E pass \in Gate(TransactionsPath, h) :
       IF ~pass THEN Unauthorized
       ELSE \E user_id \in UserIdInputs, items \in ItemLists :
              OrderStep("createTransactionChecked", createTransactionCheckedRes(h, FreshOrderId, user_id, items))

----------------------------------------------------------------------------
(* The server, one request at a time *)

Init ==
  /\ users = {}
  /\ genres = {}
  /\ books = {}
  /\ orders = <<>>
  /\ order_items = <<>>
  /\ now = 0
  /\ last = Response("listen", 0, NoData)
  /\ pending = NoRequests

Next ==
  \/ \E h \in Headers : register(h)
  \/ \E h \in Headers : createGenre(h)
  \/ \E h \in Headers : updateGenre(h)
  \/ \E h \in Headers : deleteGenre(h)
  \/ \E h \in Headers : createBook(h)
  \/ \E h \in Headers : updateBook(h)
  \/ \E h \in Headers : deleteBook(h)
  \/ \E h \in Headers : createTransaction(h)
  \/ \E h \in Headers : createTransactionChecked(h)

Spec == Init /\ [][Next]_vars

----------------------------------------------------------------------------
(* The server with requests in flight: a handler runs up to its next await,
   other handlers run, and it goes on with what it read before *)

\* the requests the interleaved handlers are tried with
ConcNames == GenreNames
ConcGenreIds == {"g1"}
ConcBodies == {BodyA(t, "g1") : t \in Titles}
ConcPatches == {[NoFields EXCEPT !.title = "Dune"], [NoFields EXCEPT !.genre_id = "g2"]}
ConcBookIds == {"b1", "b2"}

\* a handler starts on a request and stops at its first await
Begin(request) ==
  /\ BagCardinality(pending) < MaxInflight /\ now < MaxConcTime
  /\ pending' = pending (+) SetToBag({request})
  /\ UNCHANGED <<users, genres, books, orders, order_items, now, last>>

\* the handler of request q goes on to its next await, where it is request
Await(q, request) ==
  /\ pending' = (pending (-) SetToBag({q})) (+) SetToBag({request})
  /\ UNCHANGED <<users, genres, books, orders, order_items, now, last>>

\* the handler of request q answers without a write
Answer(q) ==
  /\ pending' = pending (-) SetToBag({q})
  /\ UNCHANGED <<users, genres, books, orders, order_items, now, last>>

\* the handler of request q ends on its write to genres
GenreEnd(q, op, r) ==
  IF ~r.wrote THEN Answer(q)
  ELSE /\ now < MaxConcTime
       /\ genres' = r.genres
       /\ now' = now + 1
       /\ last' = Response(op, r.status, r.id)
       /\ pending' = pending (-) SetToBag({q})
       /\ UNCHANGED <<users, books, orders, order_items>>

\* the handler of request q ends on its write to books
BookEnd(q, op, r) ==
  IF ~r.wrote THEN Answer(q)
  ELSE /\ now < MaxConcTime
       /\ books' = r.books
       /\ now' = now + 1
       /\ last' = Response(op, r.status, r.id)
       /\ pending' = pending (-) SetToBag({q})
       /\ UNCHANGED <<users, genres, orders, order_items>>

\* createGenre up to the answer of findUnique({ where: { name } }); a request
\* answered before that leaves no trace
createGenreBegin(h) ==
  \E name \in ConcNames :
    /\ TRUE \in Gate(GenrePath, h) /\ h.present /\ ~Falsy(name)
    /\ Begin(InFlight("createGenre", "write", "", name, NoFields,
                      [NothingSeen EXCEPT !.existing = genresFindUniqueName(name)]))

\* createGenre from there: 400, or the update or the create
createGenreEnd(q) ==
  /\ q.op = "createGenre"
  /\ GenreEnd(q, "createGenre", createGenreWrite(q.name, q.seen.existing))

\* updateGenre up to the answer of findUnique({ where: { id } })
updateGenreBegin(h) ==
  \E genre_id \in ConcGenreIds, name \in ConcNames :
    /\ TRUE \in Gate(GenrePath, h) /\ h.present
    /\ Begin(InFlight("updateGenre", "write", genre_id, name, NoFields,
                      [NothingSeen EXCEPT !.existing = genresFindUniqueId(genre_id)]))

\* updateGenre from there: 404 or the update
updateGenreEnd(q) ==
  /\ q.op = "updateGenre"
  /\ GenreEnd(q, "updateGenre", updateGenreWrite(q.id, q.name, q.seen.existing))

\* createBook up to the answer of genres.findUnique
createBookBegin(h) ==
  \E body \in ConcBodies :
    /\ TRUE \in Gate(BooksPath, h) /\ h.present /\ createBookValidate(body) = 0
    /\ Begin(InFlight("createBook", "findActive", "", body.title, body,
                      [NothingSeen EXCEPT !.genre = genresFindUniqueId(body.genre_id)]))

\* createBook: 404 on the genre, or on to the answer of findFirst({ title, deleted_at: null })
createBookFindActive(q) ==
  /\ q.op = "createBook" /\ q.pc = "findActive"
  /\ IF q.seen.genre = Null THEN Answer(q)
     ELSE Await(q, [q EXCEPT !.pc = "findDeleted", !.seen.active = booksFindFirstActiveTitle(q.name)])

\* createBook: 409 on an active title, or on to the answer of findFirst({ title, NOT: ... })
createBookFindDeleted(q) ==
  /\ q.op = "createBook" /\ q.pc = "findDeleted"
  /\ IF q.seen.active # Null THEN Answer(q)
     ELSE Await(q, [q EXCEPT !.pc = "write", !.seen.deleted = booksFindFirstDeletedTitle(q.name)])

\* createBook from there: the restoring update or the create
createBookEnd(q) ==
  /\ q.op = "createBook" /\ q.pc = "write"
  /\ BookEnd(q, "createBook", createBookWrite(q.body, q.seen.genre, q.seen.active, q.seen.deleted))

\* updateBook up to the answer of findFirst({ id, deleted_at: null })
updateBookBegin(h) ==
  \E book_id \in ConcBookIds, body \in ConcPatches :
    /\ TRUE \in Gate(BooksPath, h) /\ h.present
    /\ Begin(InFlight("updateBook", "found", book_id, "", body,
                      [NothingSeen EXCEPT !.existing = booksFindFirstActiveId(book_id)]))

\* updateBook from there: 404, 400 on the body, then on to the answer of
\* genres.findUnique when the body carries a genre_id, and straight to the
\* update when it carries none
updateBookFound(q) ==
  /\ q.op = "updateBook" /\ q.pc = "found"
  /\ IF q.seen.existing = Null \/ updateBookValidate(q.body) # 0 THEN Answer(q)
     ELSE IF q.body.genre_id # Undefined
     THEN Await(q, [q EXCEPT !.pc = "write", !.seen.genre = genresFindUniqueId(q.body.genre_id)])
     ELSE BookEnd(q, "updateBook", updateBookWrite(q.id, q.body, q.seen.existing, Null))

\* updateBook with a genre_id, from the answer of genres.findUnique: 400, or the update
updateBookEnd(q) ==
  /\ q.op = "updateBook" /\ q.pc = "write"
  /\ BookEnd(q, "updateBook", updateBookWrite(q.id, q.body, q.seen.existing, q.seen.genre))

\* the interleaved run starts once a user has registered and created a genre
ConcInit ==
  /\ users = {[id |-> "u1", username |-> "Anonymous", email |-> "e1"]}
  /\ genres = {[id |-> "g1", name |-> "Fiction", deleted_at |-> Null]}
  /\ books = {}
  /\ orders = <<>>
  /\ order_items = <<>>
  /\ now = 1
  /\ last = Response("createGenre", 201, "g1")
  /\ pending = NoRequests

ConcNext ==
  \/ now < MaxConcTime /\ \E h \in Headers : deleteGenre(h)
  \/ now < MaxConcTime /\ \E h \in Headers : deleteBook(h)
  \/ \E h \in Headers : createGenreBegin(h)
  \/ \E q \in BagToSet(pending) : createGenreEnd(q)
  \/ \E h \in Headers : updateGenreBegin(h)
  \/ \E q \in BagToSet(pending) : updateGenreEnd(q)
  \/ \E h \in Headers : createBookBegin(h)
  \/ \E q \in BagToSet(pending) : createBookFindActive(q)
  \/ \E q \in BagToSet(pending) : createBookFindDeleted(q)
  \/ \E q \in BagToSet(pending) : createBookEnd(q)
  \/ \E h \in Headers : updateBookBegin(h)
  \/ \E q \in BagToSet(pending) : updateBookFound(q)
  \/ \E q \in BagToSet(pending) : updateBookEnd(q)

SpecConc == ConcInit /\ [][ConcNext]_vars

----------------------------------------------------------------------------
(* deleteBook and createTransaction, interleaved at their awaits *)

\* the value of the clock `now` at which a run of SpecRace is cut
MaxRaceTime == 5

\* the items arrays POST /transactions is tried with
RaceItemLists ==
  {<<PlainItem>>, <<PlainItem, PlainItem>>, <<Item(NoSuchBook, Num(Whole(1)))>>,
   <<PlainItem, Item("b1", Num(Half(1)))>>}

RaceBegin(request) ==
  /\ BagCardinality(pending) < MaxInflight /\ now < MaxRaceTime
  /\ pending' = pending (+) SetToBag({request})
  /\ UNCHANGED <<users, genres, books, orders, order_items, now, last>>

\* deleteBook from the lookup on: book is what findFirst({ id, deleted_at: null })
\* returned, items the order items it carried (take: 1)
deleteBookWrite(book_id, book, items) ==
  IF book = Null THEN BookResult(404, NoData, books, FALSE)
  ELSE IF Cardinality(items) > 0 THEN BookResult(400, NoData, books, FALSE)
  ELSE BookResult(200, book_id, booksUpdate(book_id, [deleted_at |-> Some(now + 1)]), TRUE)

\* deleteBook up to the answer of findFirst with its order_items
deleteBookBegin(h) ==
  \E book_id \in {"b1", NoSuchBook} :
    /\ TRUE \in Gate(BooksPath, h) /\ h.present
    /\ RaceBegin(InFlight("deleteBook", "write", book_id, "", NoFields,
                          [existing |-> booksFindFirstActiveId(book_id),
                           order_items |-> orderItemsOfBook(book_id)]))

\* deleteBook from there: 404, 400, or the update that sets deleted_at
deleteBookEnd(q) ==
  /\ q.op = "deleteBook"
  /\ LET r == deleteBookWrite(q.id, q.seen.existing, q.seen.order_items) IN
     IF ~r.wrote THEN Answer(q)
     ELSE /\ now < MaxRaceTime
          /\ books' = r.books
          /\ now' = now + 1
          /\ last' = Response("deleteBook", r.status, r.id)
          /\ pending' = pending (-) SetToBag({q})
          /\ UNCHANGED <<users, genres, orders, order_items>>

\* createTransaction of controllers/libraryController.ts up to the answer of
\* users.findUnique; a request answered 400 before that leaves no trace
createTransactionBegin(h) ==
  \E user_id \in {"u1", "u2"}, items \in RaceItemLists :
    /\ TRUE \in Gate(TransactionsPath, h) /\ h.present
    /\ ~Falsy(user_id) /\ Len(items) > 0
    /\ \A i \in 1..Len(items) : ~itemMalformed(items[i])
    /\ RaceBegin(InFlight("createTransaction", "findBooks", user_id, "", [items |-> items],
                          [existing |-> usersFindUniqueId(user_id)]))

\* 404 on the user, then the loop of books.findUnique: 404 on the first book
\* without a row.  No handler removes a book row, so the lookups of one loop
\* are taken in one step
createTransactionFindBooks(q) ==
  /\ q.op = "createTransaction" /\ q.pc = "findBooks"
  /\ IF q.seen.existing = Null THEN Answer(q)
     ELSE IF \E i \in 1..Len(q.body.items) : booksFindUniqueId(q.body.items[i].book_id) = Null
     THEN Answer(q)
     ELSE Await(q, [q EXCEPT !.pc = "createOrder"])

\* prisma.orders.create with the fresh id
createTransactionCreateOrder(q) ==
  /\ q.op = "createTransaction" /\ q.pc = "createOrder"
  /\ now < MaxRaceTime /\ Len(orders) < MaxOrders
  /\ orders' = Append(orders, [id |-> FreshOrderId, user_id |-> q.id])
  /\ now' = now + 1
  /\ pending' = (pending (-) SetToBag({q})) (+) SetToBag({[q EXCEPT !.pc = "createItems", !.name = FreshOrderId]})
  /\ UNCHANGED <<users, genres, books, order_items, last>>

\* Promise.all of the order_items.create calls, and the answer: 201, or 500
\* from the catch when one of them failed
createTransactionCreateItems(q) ==
  /\ q.op = "createTransaction" /\ q.pc = "createItems"
  /\ now < MaxRaceTime
  /\ order_items' = order_items \o orderItemsCreated(q.name, q.body.items)
  /\ now' = now + 1
  /\ last' = IF \E i \in 1..Len(q.body.items) : orderItemCreateFails(q.body.items[i])
             THEN Response("createTransaction", 500, NoData)
             ELSE Response("createTransaction", 201, q.name)
  /\ pending' = pending (-) SetToBag({q})
  /\ UNCHANGED <<users, genres, books, orders>>

\* the run starts once a user has registered and created a genre and a book
RaceInit ==
  /\ users = {[id |-> "u1", username |-> "Anonymous", email |-> "e1"]}
  /\ genres = {[id |-> "g1", name |-> "Fiction", deleted_at |-> Null]}
  /\ books = {[id |-> "b1", title |-> "Dune", deleted_at |-> Null] @@ createBookData(BodyA("Dune", "g1"))}
  /\ orders = <<>>
  /\ order_items = <<>>
  /\ now = 2
  /\ last = Response("createBook", 201, "b1")
  /\ pending = NoRequests

RaceNext ==
  \/ \E h \in Headers : deleteBookBegin(h)
  \/ \E q \in BagToSet(pending) : deleteBookEnd(q)
  \/ \E h \in Headers : createTransactionBegin(h)
  \/ \E q \in BagToSet(pending) : createTransactionFindBooks(q)
  \/ \E q \in BagToSet(pending) : createTransactionCreateOrder(q)
  \/ \E q \in BagToSet(pending) : createTransactionCreateItems(q)

SpecRace == RaceInit /\ [][RaceNext]_vars

----------------------------------------------------------------------------
(* the read handlers: each is a function of the store, the header and the query *)

ReadResult(status, data) == [status |-> status, data |-> data]

\* a / b as JavaScript computes it, kept as the pair; b is never 0 where it is used
Quotient(a, b) == [num |-> a, den |-> b]
\* a - b < 0 for two quotients with positive denominators
Below(a, b) == a.num * b.den < b.num * a.den

\* Array.prototype.reduce((sum, x) => sum + x, 0)
RECURSIVE reduce(_)
reduce(xs) == IF xs = <<>> THEN 0 ELSE xs[1] + reduce(Tail(xs))

\* a sort that never looks at the direction asked for
sortAscending(rows, keys, order) ==
  LET Before(i, j) == Below(keys[i], keys[j])
      place(i) == Cardinality({j \in DOMAIN rows : Before(j, i)})
                  + Cardinality({j \in 1..(i - 1) : ~Before(j, i) /\ ~Before(i, j)}) + 1
  IN [k \in DOMAIN rows |-> rows[CHOOSE i \in DOMAIN rows : place(i) = k]]

\* a sort that is not stable: rows with equal keys come out in reverse
sortTiesReversed(rows, keys, order) ==
  LET Before(i, j) == IF order = "asc" THEN Below(keys[i], keys[j]) ELSE Below(keys[j], keys[i])
      place(i) == Cardinality({j \in DOMAIN rows : Before(j, i)})
                  + Cardinality({j \in (i + 1)..Len(rows) : ~Before(j, i) /\ ~Before(i, j)}) + 1
  IN [k \in DOMAIN rows |-> rows[CHOOSE i \in DOMAIN rows : place(i) = k]]

\* Array.prototype.sort with the comparator a.key - b.key ("asc") or
\* b.key - a.key (otherwise), and orderBy of findMany: a stable sort of rows by
\* the quotients keys[i]
sort(rows, keys, order) ==
  LET Before(i, j) == IF order = "asc" THEN Below(keys[i], keys[j]) ELSE Below(keys[j], keys[i])
      place(i) == Cardinality({j \in DOMAIN rows : Before(j, i)})
                  + Cardinality({j \in 1..(i - 1) : ~Before(j, i) /\ ~Before(i, j)}) + 1
  IN [k \in DOMAIN rows |-> rows[CHOOSE i \in DOMAIN rows : place(i) = k]]

\* { contains: search, mode: "insensitive" } for the searches tried: the empty
\* string, which every value contains, a whole value, or a string no value
\* contains; all in lower case
contains(value, search) == search = "" \/ search = value

\* Number(req.query.x) || fallback
NumberOr(v, fallback) ==
  IF ToNumber(v).nan \/ ToNumber(v).n = 0 THEN fallback ELSE ToNumber(v).n

\* include: { user: { select }, order_items: { include: { book } } } of an
\* order row: book: { select: { id, title, price } } in the listing and the
\* detail, book: { include: { genre: true } } in the statistics
orderInclude(o, genre) ==
  LET its == SelectSeq(order_items, LAMBDA it : it.order_id = o.id) IN
  [id |-> o.id, user_id |-> o.user_id, user |-> usersFindUniqueId(o.user_id)[1],
   order_items |-> [i \in DOMAIN its |->
                      LET b == booksFindUniqueId(its[i].book_id)[1] IN
                      [book_id |-> its[i].book_id, quantity |-> its[i].quantity,
                       book |-> IF genre THEN b @@ [genre |-> genresFindUniqueId(b.genre_id)[1]]
                                ELSE [id |-> b.id, title |-> b.title, price |-> b.price]]]]

\* prisma.orders.findMany({ skip, take, where, include, orderBy: [{ id: orderById }] })
\* where matching are the rows that satisfy where: the rows, or Null when the
\* client refuses skip or take.  Order ids compare as they stand in OrderIds
ordersFindMany(matching, skip, take, orderById) ==
  LET ordered == sort(matching,
                      [i \in DOMAIN matching |->
                         Quotient(CHOOSE k \in DOMAIN OrderIds : OrderIds[k] = matching[i].id, 1)],
                      orderById)
      from == (skip \div 2) + 1
      to == IF (skip + take) \div 2 < Len(ordered) THEN (skip + take) \div 2 ELSE Len(ordered)
  IN IF ~IsInteger(skip) \/ ~IsInteger(take) \/ skip < 0 THEN Null
     ELSE Some([i \in 1..(IF to < from THEN 0 ELSE to - from + 1) |-> orderInclude(ordered[from + i - 1], FALSE)])

\* order_items.reduce((sum, item) => sum + item.quantity * item.book.price, 0)
totalAmount(t) ==
  reduce([i \in DOMAIN t.order_items |-> (t.order_items[i].quantity \div 2) * t.order_items[i].book.price])

\* the mean of the line totals
avgPriceOfLineTotals(t) ==
  IF Len(t.order_items) > 0 THEN Quotient(totalAmount(t), Len(t.order_items))
  ELSE Quotient(0, 1)

\* length > 0 ? order_items.reduce((sum, item) => sum + item.book.price, 0) / length : 0
avgPrice(t) ==
  IF Len(t.order_items) > 0
  THEN Quotient(reduce([i \in DOMAIN t.order_items |-> t.order_items[i].book.price]), Len(t.order_items))
  ELSE Quotient(0, 1)

\* a query string with no parameter
NoQuery ==
  [page |-> UndefinedNum, limit |-> UndefinedNum, search |-> Undefined, orderById |-> Undefined,
   orderByAmount |-> Undefined, orderByPrice |-> Undefined]

\* the query strings GET /transactions is tried with
TransactionQueries ==
  {NoQuery, [NoQuery EXCEPT !.page = Num(Whole(2)), !.limit = Num(Whole(1))],
   [NoQuery EXCEPT !.limit = Num(Whole(1)), !.orderById = "desc"],
   [NoQuery EXCEPT !.page = Num(Whole(-1))],
   [NoQuery EXCEPT !.orderByAmount = "desc"], [NoQuery EXCEPT !.orderByPrice = "asc"],
   [NoQuery EXCEPT !.orderByPrice = "desc", !.orderById = "desc"]}
  \cup {[NoQuery EXCEPT !.search = s] : s \in {"ann", "bob", "o1", "zz"}}

\* getAllTransactions of controllers/transactionController.ts
getAllTransactionsRes(h, query) ==
  IF ~h.present THEN ReadResult(401, <<>>)
  ELSE LET page == NumberOr(query.page, Whole(1))
           limit == NumberOr(query.limit, Whole(10))
           search == IF Falsy(query.search) THEN "" ELSE query.search
           orderById == IF Falsy(query.orderById) THEN "asc" ELSE query.orderById
           orderByAmount == IF Falsy(query.orderByAmount) THEN "asc" ELSE query.orderByAmount
           transactions ==
             ordersFindMany(SelectSeq(orders, LAMBDA o : contains(usersFindUniqueId(o.user_id)[1].username, search)),
                            ((page - Whole(1)) * limit) \div 2, limit, orderById)
       IN IF transactions = Null THEN ReadResult(500, <<>>)
          ELSE ReadResult(200, sort(transactions[1],
                                    [i \in DOMAIN transactions[1] |-> Quotient(totalAmount(transactions[1][i]), 1)],
                                    orderByAmount))

\* getAllTransactions of controllers/libraryController.ts
getAllTransactionsOwnRes(h, query) ==
  IF ~h.present THEN ReadResult(401, <<>>)
  ELSE IF ~jwtVerify(h.token) THEN ReadResult(500, <<>>)
  ELSE LET userId == h.token.id
           page == NumberOr(query.page, Whole(1))
           limit == NumberOr(query.limit, Whole(10))
           search == IF Falsy(query.search) THEN "" ELSE query.search
           orderById == IF Falsy(query.orderById) THEN "asc" ELSE query.orderById
           orderByAmount == IF Falsy(query.orderByAmount) THEN "" ELSE query.orderByAmount
           orderByPrice == IF Falsy(query.orderByPrice) THEN "" ELSE query.orderByPrice
           transactions ==
             ordersFindMany(SelectSeq(orders, LAMBDA o :
                                        /\ o.user_id = userId
                                        /\ \/ contains(o.id, search)
                                           \/ contains(usersFindUniqueId(o.user_id)[1].username, search)),
                            ((page - Whole(1)) * limit) \div 2, limit, orderById)
           transactionsWithTotals ==
             [i \in DOMAIN transactions[1] |->
                [totalAmount |-> totalAmount(transactions[1][i]), avgPrice |-> avgPrice(transactions[1][i])]
                @@ transactions[1][i]]
       IN IF transactions = Null THEN ReadResult(500, <<>>)
          ELSE IF orderByAmount # ""
          THEN ReadResult(200, sort(transactionsWithTotals,
                                    [i \in DOMAIN transactionsWithTotals |->
                                       Quotient(transactionsWithTotals[i].totalAmount, 1)],
                                    orderByAmount))
          ELSE IF orderByPrice # ""
          THEN ReadResult(200, sort(transactionsWithTotals,
                                    [i \in DOMAIN transactionsWithTotals |-> transactionsWithTotals[i].avgPrice],
                                    orderByPrice))
          ELSE ReadResult(200, transactionsWithTotals)

\* getTransactionById, the same in both controllers
getTransactionByIdRes(h, id) ==
  IF ~h.present THEN ReadResult(401, <<>>)
  ELSE IF Falsy(id) THEN ReadResult(400, <<>>)
  ELSE IF \A i \in DOMAIN orders : orders[i].id # id THEN ReadResult(404, <<>>)
  ELSE ReadResult(200, <<orderInclude(orders[CHOOSE i \in DOMAIN orders : orders[i].id = id], FALSE)>>)

\* genreStats without the Set: an order counts once for each of its items
genreStatsPerItem(transactions) ==
  LET name(p) == transactions[p[1]].order_items[p[2]].book.genre.name
      met == {p \in UNION {{<<i, j>> : j \in DOMAIN transactions[i].order_items} : i \in DOMAIN transactions} :
                ~Falsy(name(p))}
      earlier(q, p) == q[1] < p[1] \/ (q[1] = p[1] /\ q[2] < p[2])
      first == {p \in met : \A q \in met : earlier(q, p) => name(q) # name(p)}
  IN [k \in 1..Cardinality(first) |->
        LET p == CHOOSE p \in first : Cardinality({q \in first : earlier(q, p)}) = k - 1 IN
        [genre |-> name(p), count |-> Cardinality({q \in met : name(q) = name(p)})]]

\* genreStats as Object.entries lists it: one entry for each genre name, in
\* the order the names are first met, with the number of orders that have an
\* item of a book of that genre (new Set: an order counts once for a name)
genreStats(transactions) ==
  LET name(p) == transactions[p[1]].order_items[p[2]].book.genre.name
      met == {p \in UNION {{<<i, j>> : j \in DOMAIN transactions[i].order_items} : i \in DOMAIN transactions} :
                ~Falsy(name(p))}
      earlier(q, p) == q[1] < p[1] \/ (q[1] = p[1] /\ q[2] < p[2])
      first == {p \in met : \A q \in met : earlier(q, p) => name(q) # name(p)}
  IN [k \in 1..Cardinality(first) |->
        LET p == CHOOSE p \in first : Cardinality({q \in first : earlier(q, p)}) = k - 1 IN
        [genre |-> name(p), count |-> Cardinality({q[1] : q \in {q \in met : name(q) = name(p)}})]]

\* getTransactionStats over the orders of the caller alone
getTransactionStatsOwnRes(h) ==
  IF ~h.present THEN ReadResult(401, <<>>)
  ELSE LET own == SelectSeq(orders, LAMBDA o : o.user_id = h.token.id)
           transactions ==
             [i \in DOMAIN own |->
                orderInclude(own[i], TRUE)]
           transactionTotals == [i \in DOMAIN transactions |-> totalAmount(transactions[i])]
           sortedGenres == sort(genreStats(transactions),
                                [k \in DOMAIN genreStats(transactions) |-> Quotient(genreStats(transactions)[k].count, 1)],
                                "desc")
       IN IF Len(transactions) = 0
          THEN ReadResult(200, [totalTransactions |-> 0, avgTransactionValue |-> Quotient(0, 1),
                                topGenre |-> Null, leastGenre |-> Null])
          ELSE ReadResult(200, [totalTransactions |-> Len(transactions),
                                avgTransactionValue |-> Quotient(reduce(transactionTotals), Len(transactions)),
                                topGenre |-> IF Len(sortedGenres) > 0 THEN Some(sortedGenres[1]) ELSE Null,
                                leastGenre |-> IF Len(sortedGenres) > 0
                                               THEN Some(sortedGenres[Len(sortedGenres)]) ELSE Null])

\* getTransactionStats, the same in both controllers; findMany without orderBy
\* is taken to list the orders as they were inserted
getTransactionStatsRes(h) ==
  IF ~h.present THEN ReadResult(401, <<>>)
  ELSE LET transactions ==
             [i \in DOMAIN orders |->
                orderInclude(orders[i], TRUE)]
           transactionTotals == [i \in DOMAIN transactions |-> totalAmount(transactions[i])]
           sortedGenres == sort(genreStats(transactions),
                                [k \in DOMAIN genreStats(transactions) |-> Quotient(genreStats(transactions)[k].count, 1)],
                                "desc")
       IN IF Len(transactions) = 0
          THEN ReadResult(200, [totalTransactions |-> 0, avgTransactionValue |-> Quotient(0, 1),
                                topGenre |-> Null, leastGenre |-> Null])
          ELSE ReadResult(200, [totalTransactions |-> Len(transactions),
                                avgTransactionValue |-> Quotient(reduce(transactionTotals), Len(transactions)),
                                topGenre |-> IF Len(sortedGenres) > 0 THEN Some(sortedGenres[1]) ELSE Null,
                                leastGenre |-> IF Len(sortedGenres) > 0
                                               THEN Some(sortedGenres[Len(sortedGenres)]) ELSE Null])

\* include: { genre: { select: { id: true, name: true } } } of a book row
bookInclude(b) ==
  LET g == genresFindUniqueId(b.genre_id)[1] IN b @@ [genre |-> [id |-> g.id, name |-> g.name]]

\* OR: [{ title: { contains } }, { writer: { contains } }, { publisher: { contains } }]
bookMatches(b, search) ==
  Falsy(search) \/ contains(b.title, search) \/ contains(b.writer, search) \/ contains(b.publisher, search)

\* getAllBooks without a price or year filter: the items of the first page, which
\* holds them all, whatever their order
getAllBooksRes(h, search) ==
  IF ~h.present THEN ReadResult(401, {})
  ELSE ReadResult(200, {bookInclude(b) : b \in {b \in books : b.deleted_at = Null /\ bookMatches(b, search)}})

getBookDetailRes(h, book_id) ==
  IF ~h.present THEN ReadResult(401, {})
  ELSE IF booksFindFirstActiveId(book_id) = Null THEN ReadResult(404, {})
  ELSE ReadResult(200, {bookInclude(booksFindFirstActiveId(book_id)[1])})

\* getBooksByGenre: the items of the first page
getBooksByGenreRes(h, genre_id, search) ==
  IF ~h.present THEN ReadResult(401, {})
  ELSE IF genresFindUniqueId(genre_id) = Null THEN ReadResult(404, {})
  ELSE ReadResult(200, {bookInclude(b) : b \in {b \in books : /\ b.deleted_at = Null /\ b.genre_id = genre_id
                                                               /\ bookMatches(b, search)}})

getAllGenresRes(h) ==
  IF ~h.present THEN ReadResult(401, {})
  ELSE ReadResult(200, {g \in genres : g.deleted_at = Null})

getGenreByIdRes(h, genre_id) ==
  IF ~h.present THEN ReadResult(401, {})
  ELSE IF \A g \in genres : g.id # genre_id \/ g.deleted_at # Null THEN ReadResult(404, {})
  ELSE ReadResult(200, {g \in genres : g.id = genre_id /\ g.deleted_at = Null})

\* a GET request: whatever the handler answers, it writes nothing
Read(path, h) == \E pass \in Gate(path, h) : UNCHANGED vars

----------------------------------------------------------------------------
(* The server with two users, three books and orders *)

\* the value of the clock `now` at which a run of SpecShop is cut, and the
\* number of orders it is cut at
MaxShopTime == 8
MaxShopOrders == 2

\* the items arrays the orders are placed with
ShopItemLists ==
  {<<Item("b1", Num(Whole(2))), Item("b3", Num(Whole(1)))>>,
   <<Item("b1", Num(Whole(1))), Item("b2", Num(Whole(1)))>>,
   <<Item("b3", Num(Whole(1)))>>, <<PlainItem>>,
   <<Item(NoSuchBook, Num(Whole(1)))>>}

\* a handler's answer becomes the next state
ShopStep(op, r, b, o, oi) ==
  IF ~r.wrote THEN NoWrite
  ELSE /\ books' = b /\ orders' = o /\ order_items' = oi
       /\ now' = now + 1
       /\ last' = Response(op, r.status, r.id)
       /\ UNCHANGED <<users, genres, pending>>

\* POST /transactions, handled by either createTransaction.  The order id is a
\* uuid or a bcrypt hash, which may compare above or below the ids of the
\* other orders: the first order takes the first or the second id of
\* OrderIds, a later one the first id no order carries
createTransactionShop(h) ==
  /\ now < MaxShopTime /\ Len(orders) < MaxShopOrders
  /\ \E pass \in Gate(TransactionsPath, h) :
       IF ~pass THEN Unauthorized
       ELSE \E user_id \in {"u1", "u2"}, items \in ShopItemLists :
              \E orderId \in IF orders = <<>> THEN {OrderIds[1], OrderIds[2]}
                             ELSE {OrderIds[CHOOSE k \in DOMAIN OrderIds :
                                              \A j \in 1..k :
                                                (\A i \in DOMAIN orders : orders[i].id # OrderIds[j]) <=> j = k]} :
                \E r \in {createTransactionRes(h, orderId, user_id, items),
                          createTransactionCheckedRes(h, orderId, user_id, items)} :
                  ShopStep("createTransaction", r, books, r.orders, r.order_items)

\* DELETE /books/:book_id
deleteBookShop(h) ==
  /\ now < MaxShopTime
  /\ \E pass \in Gate(BooksPath, h) :
       IF ~pass THEN Unauthorized
       ELSE \E book_id \in {"b1", "b3"} :
              LET r == deleteBookRes(h, book_id) IN ShopStep("deleteBook", r, r.books, orders, order_items)

\* the run starts once two users have registered and two genres and three
\* books have been created
ShopInit ==
  /\ users = {[id |-> "u1", username |-> "ann", email |-> "e1"],
              [id |-> "u2", username |-> "bob", email |-> "e2"]}
  /\ genres = {[id |-> "g1", name |-> "Fiction", deleted_at |-> Null],
               [id |-> "g2", name |-> "Horror", deleted_at |-> Null]}
  /\ books = {[id |-> "b1", title |-> "Dune", deleted_at |-> Null] @@ createBookData(BodyA("Dune", "g1")),
              [id |-> "b2", title |-> "Emma", deleted_at |-> Null] @@ createBookData(BodyB("Emma", "g1")),
              [id |-> "b3", title |-> "Ubik", deleted_at |-> Null]
                @@ createBookData([BodyA("Ubik", "g2") EXCEPT !.price = Num(Whole(20))])}
  /\ orders = <<>>
  /\ order_items = <<>>
  /\ now = 5
  /\ last = Response("createBook", 201, "b3")
  /\ pending = NoRequests

ShopNext ==
  \/ \E h \in Headers : createTransactionShop(h)
  \/ \E h \in Headers : deleteBookShop(h)
  \/ \E h \in Headers : Read(GenrePath, h)
  \/ \E h \in Headers : Read(BooksPath, h)
  \/ \E h \in Headers : Read(TransactionsPath, h)

SpecShop == ShopInit /\ [][ShopNext]_vars

----------------------------------------------------------------------------
(* Properties.  A request that is refused leaves every variable as it was, so
   what a handler answers in a state is read off its ...Res operator there;
   last holds the answer to the last request that wrote. *)

ProtectedPaths == {GenrePath, BooksPath, TransactionsPath}
\* the headers the mounted middleware lets through to a handler on path
Passing(path) == {h \in Headers : TRUE \in Gate(path, h)}
\* the row of a table that carries id
RowOf(rows, id) == CHOOSE r \in rows : r.id = id
Ids(rows) == {r.id : r \in rows}

\* C1: createGenre with the name of an active genre answers 400, and createBook
\* with the title of an active book is refused (409 when the body is otherwise
\* valid and its genre exists); neither changes a row.  Right after createGenre
\* answered 201 for a name, a second createGenre with that name answers 400.
C1_CreateOnActiveKeyRejected ==
  /\ \A h \in Passing(GenrePath), name \in NameInputs :
       (\E g \in genres : g.name = name /\ g.deleted_at = Null) =>
         LET r == createGenreRes(h, name) IN r.status = 400 /\ ~r.wrote /\ r.genres = genres
  /\ \A h \in Passing(BooksPath), body \in BookBodies :
       (\E b \in books : b.title = body.title /\ b.deleted_at = Null) =>
         LET r == createBookRes(h, body) IN
         /\ r.status \in {400, 404, 409} /\ ~r.wrote /\ r.books = books
         /\ (createBookValidate(body) = 0 /\ body.genre_id \in Ids(genres)) => r.status = 409
  /\ (last.op = "createGenre" /\ last.status = 201) =>
       /\ last.id \in Ids(genres)
       /\ \A h \in Passing(GenrePath) : createGenreRes(h, RowOf(genres, last.id).name).status = 400

\* a genre has just been created (201), creating it again answers 400, and a
\* create with the title of an active book answers 409
C1_Witness ==
  /\ last.op = "createGenre" /\ last.status = 201
  /\ \E h \in Passing(GenrePath) : createGenreRes(h, RowOf(genres, last.id).name).status = 400
  /\ \E h \in Passing(BooksPath), b \in books :
       b.deleted_at = Null /\ createBookRes(h, BodyA(b.title, b.genre_id)).status = 409

\* the body is one createBook accepts: its checks pass, its year is whole and its genre exists
AcceptableBody(body) ==
  /\ createBookValidate(body) = 0
  /\ IsInteger(body.publication_year.n)
  /\ body.genre_id \in Ids(genres)

\* createGenre on the name of a soft-deleted genre: 200, the same id, deleted_at
\* back to null, no row added and no other row touched
GenreRestoredInPlace ==
  \A h \in Passing(GenrePath), g \in genres :
    g.deleted_at # Null =>
      LET r == createGenreRes(h, g.name) IN
      /\ r.status = 200 /\ r.id = g.id /\ r.wrote
      /\ r.genres = (genres \ {g}) \cup {[g EXCEPT !.deleted_at = Null]}

\* createBook on the title of a soft-deleted book: 200, the same id, deleted_at
\* back to null, no row added, no other row touched, and the fields other than
\* description taken from the body
BookRestoredInPlace(h, body, b) ==
  LET r == createBookRes(h, body) IN
  /\ r.status = 200 /\ r.id = b.id /\ r.wrote
  /\ Ids(r.books) = Ids(books)
  /\ \A x \in books : x.id # b.id => x \in r.books
  /\ LET n == RowOf(r.books, b.id) IN
     /\ n.deleted_at = Null /\ n.title = b.title
     /\ n.writer = body.writer /\ n.publisher = body.publisher
     /\ n.publication_year = body.publication_year.n
     /\ n.price = body.price.n /\ n.stock_quantity = body.stock_quantity.n
     /\ n.genre_id = body.genre_id

C3_DeleteGenreSucceedsAfterDeleteBook ==
  (last.op = "deleteBook" /\ last.status = 200) =>
    \A h \in Passing(GenrePath), b \in books :
      (b.id = last.id /\ \A c \in books : c.genre_id = b.genre_id => c = b) =>
        deleteGenreRes(h, b.genre_id).status = 200

\* C3: deleteGenre on the genre of an active book answers 400, and it still
\* answers 400 right after deleteBook has soft-deleted that book, whose row
\* keeps its genre_id
C3_DeleteGenreRefusedBeforeAndAfterDeleteBook ==
  /\ \A h \in Passing(GenrePath), b \in books :
       b.deleted_at = Null => deleteGenreRes(h, b.genre_id).status = 400
  /\ (last.op = "deleteBook" /\ last.status = 200) =>
       \A h \in Passing(GenrePath), b \in books :
         b.id = last.id =>
           /\ b.deleted_at # Null
           /\ deleteGenreRes(h, b.genre_id).status = 400
           /\ deleteGenreRes(h, b.genre_id).genres = genres

\* the only book of an active genre has just been soft-deleted, and deleteGenre
\* on the genre is refused
C3_Witness ==
  /\ last.op = "deleteBook" /\ last.status = 200
  /\ \E h \in Passing(GenrePath), b \in books :
       /\ b.id = last.id /\ \A c \in books : c.genre_id = b.genre_id => c = b
       /\ RowOf(genres, b.genre_id).deleted_at = Null
       /\ deleteGenreRes(h, b.genre_id).status = 400

\* C4: deleteGenre on a genre that a book row references, active or
\* soft-deleted, answers 400 and leaves the genre's row, deleted_at included,
\* as it was
C4_ReferencedGenreNotDeletable ==
  \A h \in Passing(GenrePath), g \in genres :
    (\E b \in books : b.genre_id = g.id) =>
      LET r == deleteGenreRes(h, g.id) IN r.status = 400 /\ ~r.wrote /\ r.genres = genres

\* an active genre is referenced by soft-deleted books only, and deleteGenre on it answers 400
C4_Witness ==
  \E h \in Passing(GenrePath), g \in genres :
    /\ g.deleted_at = Null
    /\ \E b \in books : b.genre_id = g.id
    /\ \A b \in books : b.genre_id = g.id => b.deleted_at # Null
    /\ deleteGenreRes(h, g.id).status = 400

\* the rows of order_items that name a book
Ordered(book_id, items) == \E i \in DOMAIN items : items[i].book_id = book_id

\* C5: deleteBook on an active book that an order item names answers 400 and
\* leaves deleted_at null; no step removes an order item or soft-deletes a
\* book that an order item names
C5_OrderedBookNotDeletable ==
  /\ [](\A h \in Passing(BooksPath), b \in books :
          (b.deleted_at = Null /\ Ordered(b.id, order_items)) =>
            LET r == deleteBookRes(h, b.id) IN r.status = 400 /\ ~r.wrote /\ r.books = books)
  /\ [][\A b \in books :
          Ordered(b.id, order_items) =>
            /\ Ordered(b.id, order_items')
            /\ b.id \in Ids(books')
            /\ b.deleted_at = Null => RowOf(books', b.id).deleted_at = Null]_vars

\* an active book is named by an order item and deleteBook on it answers 400
C5_Witness ==
  \E h \in Passing(BooksPath), b \in books :
    /\ b.deleted_at = Null /\ Ordered(b.id, order_items)
    /\ deleteBookRes(h, b.id).status = 400

\* C6 as stated: a well-formed createTransaction whose user_id or one of whose
\* book_ids names no row answers 404 and persists nothing, in either controller
C6_UnknownReferenceRejectedBeforeWrite ==
  \A h \in Passing(TransactionsPath), user_id \in UserIdInputs, items \in ItemLists :
    (/\ ~Falsy(user_id) /\ Len(items) > 0
     /\ \A i \in 1..Len(items) : ~itemMalformed(items[i])
     /\ \/ user_id \notin Ids(users)
        \/ \E i \in 1..Len(items) : items[i].book_id \notin Ids(books)) =>
      \A r \in {createTransactionRes(h, FreshOrderId, user_id, items),
                createTransactionCheckedRes(h, FreshOrderId, user_id, items)} :
        r.status = 404 /\ ~r.wrote /\ r.orders = orders /\ r.order_items = order_items

\* the same for the controller that looks the user and the books up first
C6_CheckedControllerRejectsBeforeWrite ==
  \A h \in Passing(TransactionsPath), user_id \in UserIdInputs, items \in ItemLists :
    (/\ ~Falsy(user_id) /\ Len(items) > 0
     /\ \A i \in 1..Len(items) : ~itemMalformed(items[i])
     /\ \/ user_id \notin Ids(users)
        \/ \E i \in 1..Len(items) : items[i].book_id \notin Ids(books)) =>
      LET r == createTransactionCheckedRes(h, FreshOrderId, user_id, items) IN
      r.status = 404 /\ ~r.wrote /\ r.orders = orders /\ r.order_items = order_items

\* C7: every book row has price >= 0 and a whole stock_quantity >= 0;
\* createBook answers 400 and writes nothing on a negative price or a negative
\* or fractional stock_quantity, and so does updateBook on an active book
C7_PriceAndStockNonNegative ==
  /\ \A b \in books : b.price >= 0 /\ b.stock_quantity >= 0 /\ IsInteger(b.stock_quantity)
  /\ \A h \in Passing(BooksPath), body \in BookBodies :
       (\/ body.price.t = "number" /\ body.price.n < 0
        \/ body.stock_quantity.t = "number"
             /\ (body.stock_quantity.n < 0 \/ ~IsInteger(body.stock_quantity.n))) =>
         LET r == createBookRes(h, body) IN r.status = 400 /\ ~r.wrote /\ r.books = books
  /\ \A h \in Passing(BooksPath), req \in BookPatchRequests :
       (/\ \E b \in books : b.id = req[1] /\ b.deleted_at = Null
        /\ \/ req[2].price.t = "number" /\ req[2].price.n < 0
           \/ req[2].stock_quantity.t = "number"
                /\ (req[2].stock_quantity.n < 0 \/ ~IsInteger(req[2].stock_quantity.n))) =>
         LET r == updateBookRes(h, req[1], req[2]) IN r.status = 400 /\ ~r.wrote /\ r.books = books

\* a book has just been updated, and an update of it to a fractional stock and
\* a create with a negative price both answer 400
C7_Witness ==
  /\ last.op = "updateBook" /\ last.status = 200
  /\ \E h \in Passing(BooksPath), b \in books :
       /\ b.deleted_at = Null /\ b.id = last.id /\ b.stock_quantity = Whole(0)
       /\ updateBookRes(h, b.id, [NoFields EXCEPT !.stock_quantity = Num(Half(1))]).status = 400
       /\ createBookRes(h, [BodyA("Dune", "g1") EXCEPT !.price = Num(Whole(-1))]).status = 400

\* C8: at every moment, with requests interleaved at their awaits, no two
\* active genres carry one name and no two active books carry one title
C8_OneActiveRowPerKey ==
  /\ \A a, b \in genres :
       (a.id # b.id /\ a.deleted_at = Null /\ b.deleted_at = Null) => a.name # b.name
  /\ \A a, b \in books :
       (a.id # b.id /\ a.deleted_at = Null /\ b.deleted_at = Null) => a.title # b.title
  /\ \A a, b \in genres : a.id = b.id => a = b
  /\ \A a, b \in books : a.id = b.id => a = b

\* two creates of one name both found no row, one has created its row and the
\* other is about to write
C8_Witness ==
  \E q \in BagToSet(pending), g \in genres :
    /\ q.op = "createGenre" /\ q.seen.existing = Null
    /\ g.name = q.name /\ g.deleted_at = Null
    /\ last.op = "createGenre" /\ last.status = 201 /\ last.id = g.id /\ now > 1

\* C9 as stated: updateGenre and deleteGenre on a soft-deleted genre, and
\* updateBook and deleteBook on a soft-deleted book, answer 404 and leave the
\* row as it was
C9_SoftDeletedRowNotWritable ==
  /\ \A h \in Passing(GenrePath), g \in genres, name \in NameInputs :
       g.deleted_at # Null =>
         /\ updateGenreRes(h, g.id, name).status = 404
         /\ updateGenreRes(h, g.id, name).genres = genres
         /\ deleteGenreRes(h, g.id).status = 404
         /\ deleteGenreRes(h, g.id).genres = genres
  /\ \A h \in Passing(BooksPath), b \in books, body \in BookPatches :
       b.deleted_at # Null =>
         /\ updateBookRes(h, b.id, body).status = 404
         /\ updateBookRes(h, b.id, body).books = books
         /\ deleteBookRes(h, b.id).status = 404
         /\ deleteBookRes(h, b.id).books = books

\* the part of C9 about books
C9_SoftDeletedBookNotWritable ==
  \A h \in Passing(BooksPath), b \in books, body \in BookPatches :
    b.deleted_at # Null =>
      /\ updateBookRes(h, b.id, body).status = 404
      /\ updateBookRes(h, b.id, body).books = books
      /\ deleteBookRes(h, b.id).status = 404
      /\ deleteBookRes(h, b.id).books = books

\* C10: on /genre, /books and /transactions the middleware, in either of its
\* versions, passes a request on only when it carries a Bearer token that
\* verifies; so while no user is registered, and no token verifies, no genre,
\* book, order or order item is ever written
C10_OnlyVerifiedBearerReachesHandlers ==
  /\ \A path \in ProtectedPaths, h \in Headers :
       (~h.present \/ h.scheme # "Bearer" \/ h.token.sig # "valid" \/ h.token.exp # "live") =>
         Gate(path, h) = {FALSE}
  /\ users = {} => genres = {} /\ books = {} /\ orders = <<>> /\ order_items = <<>>

\* a handler has written for a registered user's token, while the headers
\* without a header, with another scheme, a forged or an expired token are refused
C10_Witness ==
  /\ users # {} /\ genres # {} /\ last.op = "createGenre"
  /\ Passing(GenrePath) = {Header("Bearer", Token("valid", "live", u.id)) : u \in users}
  /\ \A h \in Headers \ Passing(GenrePath) : Gate(GenrePath, h) = {FALSE}

\* C20: every book row's genre_id is the id of a genre row, soft-deleted or
\* not; a createBook that passes the body checks with a genre_id no genre row
\* carries answers 404, an updateBook of an active book with such a genre_id
\* answers 400, and neither writes; a create or an update that does write a
\* genre_id writes the id of a genre row
C20_BookGenreAlwaysResolves ==
  /\ \A b \in books : \E g \in genres : g.id = b.genre_id
  /\ \A h \in Passing(BooksPath), body \in BookBodies :
       LET r == createBookRes(h, body) IN
       /\ (createBookValidate(body) = 0 /\ body.genre_id \notin Ids(genres)) =>
            r.status = 404 /\ ~r.wrote /\ r.books = books
       /\ r.wrote => body.genre_id \in Ids(genres)
  /\ \A h \in Passing(BooksPath), req \in BookPatchRequests :
       LET r == updateBookRes(h, req[1], req[2]) IN
       /\ (/\ \E b \in books : b.id = req[1] /\ b.deleted_at = Null
           /\ req[2].genre_id # Undefined /\ req[2].genre_id \notin Ids(genres)) =>
            r.status = 400 /\ ~r.wrote /\ r.books = books
       /\ (r.wrote /\ req[2].genre_id # Undefined) => req[2].genre_id \in Ids(genres)

\* a book has just been created under a soft-deleted genre, and a create and
\* an update naming a genre id without a row are answered 404 and 400
C20_Witness ==
  /\ last.op = "createBook" /\ last.status = 201
  /\ \E h \in Passing(BooksPath), b \in books, g \in genres :
       /\ b.id = last.id /\ b.deleted_at = Null /\ g.id = b.genre_id /\ g.deleted_at # Null
       /\ createBookRes(h, [BodyA("Emma", "g1") EXCEPT !.genre_id = NoSuchGenre]).status = 404
       /\ updateBookRes(h, b.id, [NoFields EXCEPT !.genre_id = NoSuchGenre]).status = 400

\* C18 as stated: a well-formed createTransaction for a registered user with an
\* item whose book_id names a soft-deleted book answers 404 and persists nothing
C18_SoftDeletedBookNotOrderable ==
  \A h \in Passing(TransactionsPath), user_id \in UserIdInputs, items \in ItemLists :
    (/\ user_id \in Ids(users) /\ Len(items) > 0
     /\ \A i \in 1..Len(items) : ~itemMalformed(items[i])
     /\ \E i \in 1..Len(items), b \in books : b.id = items[i].book_id /\ b.deleted_at # Null) =>
      LET r == createTransactionCheckedRes(h, FreshOrderId, user_id, items) IN
      r.status = 404 /\ ~r.wrote /\ r.orders = orders /\ r.order_items = order_items

\* C15 as stated: whatever createTransaction answers, in either controller, it
\* leaves the store with the new order and one order item for every requested
\* item, or with no row of its own
C15_OrderWrittenWhollyOrNotAtAll ==
  \A h \in Passing(TransactionsPath), user_id \in UserIdInputs, items \in ItemLists :
    \A r \in {createTransactionRes(h, FreshOrderId, user_id, items),
              createTransactionCheckedRes(h, FreshOrderId, user_id, items)} :
      \/ r.orders = orders /\ r.order_items = order_items
      \/ /\ r.orders = Append(orders, [id |-> FreshOrderId, user_id |-> user_id])
         /\ Len(r.order_items) = Len(order_items) + Len(items)
         /\ SubSeq(r.order_items, 1, Len(order_items)) = order_items
         /\ \A i \in 1..Len(items) :
              LET row == r.order_items[Len(order_items) + i] IN
              row.order_id = FreshOrderId /\ row.book_id = items[i].book_id

\* C16 as stated: when a createGenre, or a createBook, has passed its lookups
\* for a key no row carried, and another request has created the row with that
\* key in the meantime, the late one writes nothing and is answered as a
\* request whose lookup finds the row (400 for a genre name, 409 for a book
\* title), never 500
C16_LosingCreateAnsweredAsConflict ==
  /\ \A q \in BagToSet(pending) :
       (/\ q.op = "createGenre" /\ q.seen.existing = Null
        /\ \E g \in genres : g.name = q.name /\ g.deleted_at = Null) =>
         LET r == createGenreWrite(q.name, q.seen.existing) IN
         /\ ~r.wrote /\ r.genres = genres
         /\ r.status = createGenreWrite(q.name, genresFindUniqueName(q.name)).status
         /\ r.status # 500
  /\ \A q \in BagToSet(pending) :
       (/\ q.op = "createBook" /\ q.pc = "write"
        /\ q.seen.genre # Null /\ q.seen.active = Null /\ q.seen.deleted = Null
        /\ \E b \in books : b.title = q.name /\ b.deleted_at = Null) =>
         LET r == createBookWrite(q.body, q.seen.genre, q.seen.active, q.seen.deleted) IN
         /\ ~r.wrote /\ r.books = books
         /\ r.status = createBookWrite(q.body, q.seen.genre, booksFindFirstActiveTitle(q.name),
                                       booksFindFirstDeletedTitle(q.name)).status
         /\ r.status # 500

\* the part of C16 about createBook, whose catch maps the unique violation to 409
C16_LosingCreateBookAnsweredAsConflict ==
  \A q \in BagToSet(pending) :
    (/\ q.op = "createBook" /\ q.pc = "write"
     /\ q.seen.genre # Null /\ q.seen.active = Null /\ q.seen.deleted = Null
     /\ \E b \in books : b.title = q.name /\ b.deleted_at = Null) =>
      LET r == createBookWrite(q.body, q.seen.genre, q.seen.active, q.seen.deleted) IN
      ~r.wrote /\ r.books = books /\ r.status = 409

\* C17 as stated: with deleteBook and createTransaction interleaved at their
\* awaits, no step sets deleted_at on a book that an order item names at that
\* moment
C17_DeleteBookNeverHidesOrderedBook ==
  [][\A b \in books :
       (b.deleted_at = Null /\ \E c \in books' : c.id = b.id /\ c.deleted_at # Null) =>
         ~Ordered(b.id, order_items)]_vars

\* C11 as stated: whatever the query, every order in the answer of
\* getAllTransactions, in either controller, has the user_id that the caller's
\* token carries
C11_ListingHoldsOnlyCallersOrders ==
  \A h \in Passing(TransactionsPath), query \in TransactionQueries :
    \A r \in {getAllTransactionsRes(h, query), getAllTransactionsOwnRes(h, query)} :
      \A i \in DOMAIN r.data : r.data[i].user_id = h.token.id

\* the same for the getAllTransactions of controllers/libraryController.ts alone
C11_OwnListingHoldsOnlyCallersOrders ==
  \A h \in Passing(TransactionsPath), query \in TransactionQueries :
    LET r == getAllTransactionsOwnRes(h, query) IN
    \A i \in DOMAIN r.data : r.data[i].user_id = h.token.id

\* the sum of the values of a function with a finite domain
RECURSIVE SumOf(_)
SumOf(f) ==
  IF DOMAIN f = {} THEN 0
  ELSE LET x == CHOOSE x \in DOMAIN f : TRUE IN f[x] + SumOf([y \in DOMAIN f \ {x} |-> f[y]])

\* the order items of an order, and what they sum to
ItemsOf(order_id) == {j \in DOMAIN order_items : order_items[j].order_id = order_id}
TotalOf(order_id) ==
  SumOf([j \in ItemsOf(order_id) |->
           (order_items[j].quantity \div 2) * RowOf(books, order_items[j].book_id).price])
PricesOf(order_id) == SumOf([j \in ItemsOf(order_id) |-> RowOf(books, order_items[j].book_id).price])

\* C12: for every order in the answer of getAllTransactions
\* (controllers/libraryController.ts), totalAmount is the sum over the order's
\* items of quantity times the price of the item's book, and avgPrice is the
\* sum of the prices of the items' books divided by the number of items, and
\* the number 0 when the order has no item
C12_TotalAndAveragePerOrder ==
  \A h \in Passing(TransactionsPath), query \in TransactionQueries :
    LET r == getAllTransactionsOwnRes(h, query) IN
    \A i \in DOMAIN r.data :
      LET t == r.data[i] IN
      /\ t.totalAmount = TotalOf(t.id)
      /\ t.avgPrice.den > 0
      /\ IF ItemsOf(t.id) = {} THEN t.avgPrice.num = 0
         ELSE t.avgPrice.num * Cardinality(ItemsOf(t.id)) = PricesOf(t.id) * t.avgPrice.den

\* the caller's listing holds an order of 2 copies of a book priced 10 and 1
\* copy of a book priced 20, with total 40 and average 15 (the mean of its line
\* totals is 20), and an order without items, with total 0 and average 0
C12_Witness ==
  \E h \in Passing(TransactionsPath) :
    LET r == getAllTransactionsOwnRes(h, NoQuery) IN
    /\ r.status = 200
    /\ \E i \in DOMAIN r.data :
         /\ Len(r.data[i].order_items) = 2
         /\ r.data[i].order_items[1].quantity = Whole(2)
         /\ r.data[i].totalAmount = Whole(40)
         /\ r.data[i].avgPrice.num = Whole(15) * r.data[i].avgPrice.den
    /\ \E i \in DOMAIN r.data :
         /\ Len(r.data[i].order_items) = 0
         /\ r.data[i].totalAmount = 0 /\ r.data[i].avgPrice.num = 0

\* the orders that have an item of a book of the genre with this name, and the
\* names of the genres some order touches
Touching(name) ==
  {i \in DOMAIN orders :
     \E j \in ItemsOf(orders[i].id) :
       RowOf(genres, RowOf(books, order_items[j].book_id).genre_id).name = name}
Touched == {g.name : g \in {g \in genres : Touching(g.name) # {}}}

\* C13: when some order touches a genre, getTransactionStats answers a
\* topGenre and a leastGenre that are touched genres, each with the number of
\* orders that have at least one item of a book of that genre as its count; no
\* touched genre has more orders than topGenre and none has fewer than leastGenre
C13_GenreFrequencyCountsOrders ==
  \A h \in Passing(TransactionsPath) :
    LET d == getTransactionStatsRes(h).data IN
    Touched # {} =>
      /\ d.topGenre # Null /\ d.leastGenre # Null
      /\ d.topGenre[1].genre \in Touched /\ d.leastGenre[1].genre \in Touched
      /\ d.topGenre[1].count = Cardinality(Touching(d.topGenre[1].genre))
      /\ d.leastGenre[1].count = Cardinality(Touching(d.leastGenre[1].genre))
      /\ \A name \in Touched :
           /\ Cardinality(Touching(name)) <= d.topGenre[1].count
           /\ Cardinality(Touching(name)) >= d.leastGenre[1].count

\* two orders, one with two books of Fiction and one with a book of Fiction
\* and a book of Horror: topGenre is Fiction with 2, leastGenre Horror with 1
C13_Witness ==
  /\ \E i \in DOMAIN orders :
       /\ Cardinality(ItemsOf(orders[i].id)) = 2
       /\ \A j \in ItemsOf(orders[i].id) : RowOf(books, order_items[j].book_id).genre_id = "g1"
       /\ \E j, k \in ItemsOf(orders[i].id) : order_items[j].book_id # order_items[k].book_id
  /\ \E h \in Passing(TransactionsPath) :
       LET d == getTransactionStatsRes(h).data IN
       /\ d.topGenre = Some([genre |-> "Fiction", count |-> 2])
       /\ d.leastGenre = Some([genre |-> "Horror", count |-> 1])

\* C14: getTransactionStats answers every caller with totalTransactions the
\* number of orders in the store, whoever owns them, and avgTransactionValue
\* the sum of the orders' totals divided by that number; with no order it
\* answers 0, 0, null and null, and topGenre and leastGenre are null as well
\* when there are orders but none has an item
C14_StatsCoverAllOrders ==
  \A h \in Passing(TransactionsPath) :
    LET r == getTransactionStatsRes(h)
        d == r.data
    IN /\ r.status = 200
       /\ d.totalTransactions = Len(orders)
       /\ d.avgTransactionValue.den > 0
       /\ d.avgTransactionValue.num * Len(orders)
            = SumOf([i \in DOMAIN orders |-> TotalOf(orders[i].id)]) * d.avgTransactionValue.den
       /\ orders = <<>> => d.avgTransactionValue.num = 0 /\ d.topGenre = Null /\ d.leastGenre = Null
       /\ (\A i \in DOMAIN orders : ItemsOf(orders[i].id) = {}) => d.topGenre = Null /\ d.leastGenre = Null

\* two orders of two users, one of 40 and one left without items: the caller,
\* who owns one of them, is answered 2 transactions of 20 on average
C14_Witness ==
  /\ Len(orders) = 2 /\ orders[1].user_id # orders[2].user_id
  /\ \E i \in DOMAIN orders : ItemsOf(orders[i].id) = {}
  /\ \E h \in Passing(TransactionsPath) :
       LET d == getTransactionStatsRes(h).data IN
       /\ h.token.id = orders[1].user_id
       /\ d.totalTransactions = 2
       /\ d.avgTransactionValue.num = Whole(20) * d.avgTransactionValue.den

\* the searches the book listings are tried with
BookSearches == {Undefined, "Dune", "w1", "zz"}

\* C19 as stated: no data of a soft-deleted genre or book row is in the answer
\* of a read: not as a listed or detailed genre or book, not as the genre shown
\* with a book, not as the book shown with an order item, not as the genre
\* named in the statistics
C19_ReadsNeverShowSoftDeletedRows ==
  \A h \in Passing(TransactionsPath) :
    /\ \A g \in getAllGenresRes(h).data : RowOf(genres, g.id).deleted_at = Null
    /\ \A genre_id \in GenreIdInputs :
         /\ \A g \in getGenreByIdRes(h, genre_id).data : RowOf(genres, g.id).deleted_at = Null
         /\ \A search \in BookSearches :
              \A b \in getBooksByGenreRes(h, genre_id, search).data :
                RowOf(books, b.id).deleted_at = Null /\ RowOf(genres, b.genre.id).deleted_at = Null
    /\ \A search \in BookSearches :
         \A b \in getAllBooksRes(h, search).data :
           RowOf(books, b.id).deleted_at = Null /\ RowOf(genres, b.genre.id).deleted_at = Null
    /\ \A book_id \in BookIdInputs :
         \A b \in getBookDetailRes(h, book_id).data :
           RowOf(books, b.id).deleted_at = Null /\ RowOf(genres, b.genre.id).deleted_at = Null
    /\ \A query \in TransactionQueries :
         \A r \in {getAllTransactionsRes(h, query), getAllTransactionsOwnRes(h, query)} :
           \A i \in DOMAIN r.data :
             \A j \in DOMAIN r.data[i].order_items :
               RowOf(books, r.data[i].order_items[j].book.id).deleted_at = Null
    /\ \A id \in {OrderIds[i] : i \in DOMAIN OrderIds} :
         LET r == getTransactionByIdRes(h, id) IN
         \A i \in DOMAIN r.data :
           \A j \in DOMAIN r.data[i].order_items :
             RowOf(books, r.data[i].order_items[j].book.id).deleted_at = Null
    /\ LET d == getTransactionStatsRes(h).data IN
       \A e \in {d.topGenre, d.leastGenre} :
         e # Null => \A g \in genres : g.name = e[1].genre => g.deleted_at = Null

\* what of C19 holds: the genres that getAllGenres and getGenreById answer, and
\* the books that getAllBooks, getBookDetail and getBooksByGenre answer, are
\* rows whose own deleted_at is null
C19_ListedRowsAreActive ==
  \A h \in Passing(BooksPath) :
    /\ \A g \in getAllGenresRes(h).data : RowOf(genres, g.id).deleted_at = Null
    /\ \A genre_id \in GenreIdInputs :
         /\ \A g \in getGenreByIdRes(h, genre_id).data : RowOf(genres, g.id).deleted_at = Null
         /\ \A search \in BookSearches :
              \A b \in getBooksByGenreRes(h, genre_id, search).data : RowOf(books, b.id).deleted_at = Null
    /\ \A search \in BookSearches :
         \A b \in getAllBooksRes(h, search).data : RowOf(books, b.id).deleted_at = Null
    /\ \A book_id \in BookIdInputs :
         \A b \in getBookDetailRes(h, book_id).data : RowOf(books, b.id).deleted_at = Null

\* the genre shown with a listed book is never a soft-deleted one: this fails
\* once a book is created under a soft-deleted genre
C19_ListedBooksShowActiveGenres ==
  \A h \in Passing(BooksPath), search \in BookSearches :
    \A b \in getAllBooksRes(h, search).data : RowOf(genres, b.genre.id).deleted_at = Null

\* the PATCH bodies the frame of updateBook is read on: those the server is run
\* with, and bodies with an empty title, writer and publisher
FramePatches ==
  BookPatches \cup {[NoFields EXCEPT !.title = ""], [NoFields EXCEPT !.writer = "", !.publisher = ""],
                    [NoFields EXCEPT !.writer = "w3", !.price = Num(Whole(0)), !.stock_quantity = Num(Whole(0))]}

\* a book row with the fields a PATCH body carries set to the body's values,
\* and every other field as it was
PatchedBook(b, body) ==
  [n \in DOMAIN b |->
     IF n \in {"title", "writer", "publisher", "genre_id"} /\ body[n] # Undefined THEN body[n]
     ELSE IF n = "description" /\ body[n] # Undefined THEN Some(body[n])
     ELSE IF n \in {"publication_year", "price", "stock_quantity"} /\ body[n] # UndefinedNum THEN body[n].n
     ELSE b[n]]

\* an updateBook that writes leaves every other book as it was and gives the
\* book the body's value in each field the body carries, an empty string or a
\* zero included, and its previous value in each field the body lacks
UpdateBookWritesPresentFields ==
  \A h \in Passing(BooksPath), book_id \in {"b1", "b2", NoSuchBook}, body \in FramePatches :
    LET r == updateBookRes(h, book_id, body) IN
    r.wrote =>
      /\ r.status = 200 /\ book_id \in Ids(books)
      /\ r.books = (books \ {RowOf(books, book_id)}) \cup {PatchedBook(RowOf(books, book_id), body)}

\* a step that answers an updateBook or an updateGenre writes to no table but
\* that of the book or genre
UpdateTouchesOneTable ==
  /\ (now' # now /\ last'.op = "updateBook") => UNCHANGED <<users, genres, orders, order_items>>
  /\ (now' # now /\ last'.op = "updateGenre") => UNCHANGED <<users, books, orders, order_items>>

\* C21 as stated: updateBook and updateGenre write the fields present in the
\* body and no other; a name that is present is written to the genre, the
\* empty name included
C21_UpdateWritesEveryPresentField ==
  /\ UpdateBookWritesPresentFields
  /\ \A h \in Passing(GenrePath), g \in genres, name \in NameInputs :
       LET r == updateGenreRes(h, g.id, name) IN
       r.wrote => r.genres = (genres \ {g}) \cup {[g EXCEPT !.name = IF name = Undefined THEN g.name ELSE name]}

\* C21: updateBook writes the fields present in the body, empty and zero
\* values included, and no other; updateGenre writes name when the body
\* carries a non-empty one and keeps the previous name when name is absent or
\* empty; no other row of any table is changed
C21_UpdateWritesOnlyPresentFields ==
  /\ [](/\ UpdateBookWritesPresentFields
        /\ \A h \in Passing(GenrePath), g \in genres, name \in NameInputs :
             LET r == updateGenreRes(h, g.id, name) IN
             r.wrote => r.genres = (genres \ {g})
                                     \cup {[g EXCEPT !.name = IF name \in {Undefined, ""} THEN g.name ELSE name]})
  /\ [][UpdateTouchesOneTable]_vars

\* a book created with price 10 has just been updated to price 0 and kept its
\* writer and stock; an update of it with an empty description is accepted, and
\* an updateGenre with an empty name answers 200 and leaves the name
C21_Witness ==
  /\ last.op = "updateBook" /\ last.status = 200
  /\ \E h \in Passing(BooksPath), b \in books :
       /\ b.id = last.id /\ b.price = Whole(0) /\ b.writer = "w1" /\ b.stock_quantity = Whole(5)
       /\ b.description = Some("d1")
       /\ updateBookRes(h, b.id, [NoFields EXCEPT !.description = ""]).status = 200
       /\ RowOf(updateBookRes(h, b.id, [NoFields EXCEPT !.description = ""]).books, b.id).description = Some("")
  /\ \E h \in Passing(GenrePath), g \in genres :
       updateGenreRes(h, g.id, "").status = 200 /\ updateGenreRes(h, g.id, "").genres = genres

\* C22: createGenre, deleteGenre, createBook, updateBook and deleteBook change
\* no row when they answer with a status from 400 to 499, whatever the header
\* and the body; an updateBook changes all the fields its body carries or
\* none; and no answer to a request that wrote carries such a status
C22_RefusalWritesNothing ==
  /\ \A h \in Headers :
       /\ \A name \in NameInputs :
            LET r == createGenreRes(h, name) IN
            r.status \in 400..499 => ~r.wrote /\ r.genres = genres
       /\ \A genre_id \in GenreIdInputs :
            LET r == deleteGenreRes(h, genre_id) IN
            r.status \in 400..499 => ~r.wrote /\ r.genres = genres
       /\ \A body \in BookBodies :
            LET r == createBookRes(h, body) IN
            r.status \in 400..499 => ~r.wrote /\ r.books = books
       /\ \A req \in BookPatchRequests :
            LET r == updateBookRes(h, req[1], req[2]) IN
            /\ r.status \in 400..499 => ~r.wrote /\ r.books = books
            /\ \/ r.books = books
               \/ r.books = (books \ {RowOf(books, req[1])}) \cup {PatchedBook(RowOf(books, req[1]), req[2])}
       /\ \A book_id \in BookIdInputs :
            LET r == deleteBookRes(h, book_id) IN
            r.status \in 400..499 => ~r.wrote /\ r.books = books
  /\ last.op \in {"createGenre", "deleteGenre", "createBook", "updateBook", "deleteBook"} =>
       last.status \notin 400..499

\* an active book priced 10 that an order item names: an updateBook with a
\* good price and a fractional stock, and one with a new title and a negative
\* price, answer 400; createBook on its title answers 409; deleteBook on it and
\* deleteGenre on its genre answer 400; createGenre without a name answers 400
C22_Witness ==
  \E h \in Passing(BooksPath), b \in books :
    /\ b.deleted_at = Null /\ b.price = Whole(10) /\ b.title = "Dune" /\ Ordered(b.id, order_items)
    /\ updateBookRes(h, b.id, [NoFields EXCEPT !.price = Num(Whole(0)), !.stock_quantity = Num(Half(1))]).status = 400
    /\ updateBookRes(h, b.id, [NoFields EXCEPT !.title = "Emma", !.price = Num(Whole(-1))]).status = 400
    /\ createBookRes(h, BodyA(b.title, b.genre_id)).status = 409
    /\ deleteBookRes(h, b.id).status = 400
    /\ deleteGenreRes(h, b.genre_id).status = 400
    /\ createGenreRes(h, "").status = 400

\* C23 as stated: every order item in the store has a whole quantity above 0,
\* and a createTransaction, in either controller, for a registered user and
\* books of the store, with an item whose quantity is 0, negative or
\* fractional is refused with no row written
C23_QuantityPositiveInteger ==
  /\ \A j \in DOMAIN order_items : order_items[j].quantity > 0 /\ IsInteger(order_items[j].quantity)
  /\ \A h \in Passing(TransactionsPath), user_id \in UserIdInputs :
       \A items \in ItemLists \cup {<<Item("b1", Num(Whole(-1)))>>} :
         (/\ user_id \in Ids(users)
          /\ \A i \in 1..Len(items) : items[i].book_id \in Ids(books)
          /\ \E i \in 1..Len(items) :
               /\ items[i].quantity.t = "number"
               /\ items[i].quantity.n <= 0 \/ ~IsInteger(items[i].quantity.n)) =>
           \A r \in {createTransactionRes(h, FreshOrderId, user_id, items),
                     createTransactionCheckedRes(h, FreshOrderId, user_id, items)} :
             r.status \in 400..499 /\ ~r.wrote /\ r.orders = orders /\ r.order_items = order_items

\* what of C23 holds: every order item in the store has a whole quantity
C23_QuantityIsWhole ==
  \A j \in DOMAIN order_items : IsInteger(order_items[j].quantity)

\* where the orders, gone through as the store lists them and each through
\* its items, first show the genre with this name, which some order touches:
\* the order and the item; and whether the genre a is first met before b is
FirstMet(name) ==
  LET i == CHOOSE i \in Touching(name) : \A k \in Touching(name) : i <= k
      js == {j \in ItemsOf(orders[i].id) :
               RowOf(genres, RowOf(books, order_items[j].book_id).genre_id).name = name}
  IN <<i, CHOOSE j \in js : \A k \in js : j <= k>>
MetBefore(a, b) ==
  LET p == FirstMet(a)
      q == FirstMet(b)
  IN p[1] < q[1] \/ (p[1] = q[1] /\ p[2] < q[2])

\* C24 as stated: of the genres with the highest count topGenre is the one
\* first met, and of the genres with the lowest count leastGenre is the one
\* first met
C24_TiesGoToFirstMetGenre ==
  \A h \in Passing(TransactionsPath) :
    LET d == getTransactionStatsRes(h).data IN
    Touched # {} =>
      /\ \A name \in Touched \ {d.topGenre[1].genre} :
           Cardinality(Touching(name)) = d.topGenre[1].count => MetBefore(d.topGenre[1].genre, name)
      /\ \A name \in Touched \ {d.leastGenre[1].genre} :
           Cardinality(Touching(name)) = d.leastGenre[1].count => MetBefore(d.leastGenre[1].genre, name)

\* C24: of the genres with the highest count topGenre is the one first met,
\* and of the genres with the lowest count leastGenre is the one whose first
\* meeting comes last
C24_TopFirstMetLeastLastMet ==
  \A h \in Passing(TransactionsPath) :
    Touched # {} =>
      \A d \in {getTransactionStatsRes(h).data} :
        \A top \in {d.topGenre[1]}, least \in {d.leastGenre[1]} :
          /\ top.genre \in Touched /\ least.genre \in Touched
          /\ top.count = Cardinality(Touching(top.genre))
          /\ least.count = Cardinality(Touching(least.genre))
          /\ \A name \in Touched \ {top.genre} :
               Cardinality(Touching(name)) = top.count => MetBefore(top.genre, name)
          /\ \A name \in Touched \ {least.genre} :
               Cardinality(Touching(name)) = least.count => MetBefore(name, least.genre)

\* an order of a Horror book and then an order of a Fiction book: both genres
\* count 1, topGenre is Horror, met first, and leastGenre is Fiction, met last
C24_Witness ==
  /\ Len(orders) = 2
  /\ \E h \in Passing(TransactionsPath) :
       LET d == getTransactionStatsRes(h).data IN
       /\ d.topGenre = Some([genre |-> "Horror", count |-> 1])
       /\ d.leastGenre = Some([genre |-> "Fiction", count |-> 1])
  /\ MetBefore("Horror", "Fiction")

\* the place of an order in the store: orders are kept as they were created
CreatedAt(order_id) == CHOOSE i \in DOMAIN orders : orders[i].id = order_id

\* C25 as stated: without orderByAmount and orderByPrice, getAllTransactions
\* (controllers/libraryController.ts) lists the caller's orders from the last
\* created to the first
C25_DefaultListingNewestFirst ==
  \A h \in Passing(TransactionsPath), query \in TransactionQueries :
    (query.orderByAmount = Undefined /\ query.orderByPrice = Undefined) =>
      \A r \in {getAllTransactionsOwnRes(h, query)} :
        \A i, j \in DOMAIN r.data : i < j => CreatedAt(r.data[i].id) > CreatedAt(r.data[j].id)

\* what the code does: without orderByAmount and orderByPrice the orders are
\* listed by id, ascending unless orderById says "desc"
C25_DefaultListingById ==
  \A h \in Passing(TransactionsPath), query \in TransactionQueries :
    (query.orderByAmount = Undefined /\ query.orderByPrice = Undefined) =>
      \A r \in {getAllTransactionsOwnRes(h, query)} :
        \A i, j \in DOMAIN r.data :
          i < j => \E a, b \in DOMAIN OrderIds :
                     /\ OrderIds[a] = r.data[i].id /\ OrderIds[b] = r.data[j].id
                     /\ IF query.orderById = "desc" THEN a > b ELSE a < b

\* the queries the sorted listing is read with: a direction for the total, for
\* the average, or for both, over either order of the ids
SortQueries ==
  {[NoQuery EXCEPT !.orderByAmount = a, !.orderByPrice = p, !.orderById = o] :
     a \in {Undefined, "asc", "desc"}, p \in {Undefined, "asc", "desc"}, o \in {Undefined, "desc"}}
  \ {[NoQuery EXCEPT !.orderById = o] : o \in {Undefined, "desc"}}

\* the place of an id among the ids, which is where the store lists its order
IdRank(order_id) == CHOOSE k \in DOMAIN OrderIds : OrderIds[k] = order_id

\* the listing t is in the order dir of the numbers key gives, num over den,
\* and two orders with one number stand as the store lists them, by id in the
\* order byId
SortedBy(t, num, den, dir, byId) ==
  \A i, j \in DOMAIN t :
    i < j =>
      /\ IF dir = "asc" THEN num[t[i].id] * den[t[j].id] <= num[t[j].id] * den[t[i].id]
         ELSE num[t[i].id] * den[t[j].id] >= num[t[j].id] * den[t[i].id]
      /\ num[t[i].id] * den[t[j].id] = num[t[j].id] * den[t[i].id] =>
           IF byId = "desc" THEN IdRank(t[i].id) > IdRank(t[j].id) ELSE IdRank(t[i].id) < IdRank(t[j].id)

\* C26: with orderByAmount "asc" or "desc" getAllTransactions
\* (controllers/libraryController.ts) lists the caller's orders by total, not
\* decreasing or not increasing; without orderByAmount and with orderByPrice
\* "asc" or "desc" it lists them by the average price; orders with one total,
\* or one average, stand in the order of the store's answer, which is by id;
\* the listing holds each of the caller's orders once
C26_ListingSortedByComputedField ==
  \A h \in Passing(TransactionsPath), query \in SortQueries :
    \A t \in {getAllTransactionsOwnRes(h, query).data} :
      \A ids \in {{orders[i].id : i \in {i \in DOMAIN orders : orders[i].user_id = h.token.id}}} :
        /\ {t[i].id : i \in DOMAIN t} = ids /\ Len(t) = Cardinality(ids)
        /\ IF query.orderByAmount # Undefined
           THEN SortedBy(t, [id \in ids |-> TotalOf(id)], [id \in ids |-> 1],
                         query.orderByAmount, query.orderById)
           ELSE SortedBy(t, [id \in ids |-> PricesOf(id)],
                         [id \in ids |-> IF ItemsOf(id) = {} THEN 1 ELSE Cardinality(ItemsOf(id))],
                         query.orderByPrice, query.orderById)

\* the caller has two orders of total 10, one of two books and one of one,
\* the first created with the higher id: by total, descending, they are listed
\* lower id first, as the store lists them, and by average price, descending,
\* the order of one book (10) comes before the order of two (5)
C26_Witness ==
  /\ Len(orders) = 2 /\ orders[1].user_id = orders[2].user_id
  /\ IdRank(orders[1].id) > IdRank(orders[2].id)
  /\ TotalOf(orders[1].id) = Whole(10) /\ TotalOf(orders[2].id) = Whole(10)
  /\ Cardinality(ItemsOf(orders[1].id)) = 2 /\ Cardinality(ItemsOf(orders[2].id)) = 1
  /\ \E h \in Passing(TransactionsPath) :
       /\ h.token.id = orders[1].user_id
       /\ \A t \in {getAllTransactionsOwnRes(h, [NoQuery EXCEPT !.orderByAmount = "desc"]).data} :
            Len(t) = 2 /\ t[1].id = orders[2].id /\ t[2].id = orders[1].id
       /\ \A t \in {getAllTransactionsOwnRes(h, [NoQuery EXCEPT !.orderByPrice = "desc", !.orderById = "desc"]).data} :
            Len(t) = 2 /\ t[1].id = orders[2].id /\ t[2].id = orders[1].id

\* C27 as stated, for pages of one order: with orderByAmount or orderByPrice
\* set, page 1 of getAllTransactions (controllers/libraryController.ts) is the
\* first of all the caller's orders in the order asked for (no order of the
\* caller has a higher total, or average, when "desc" is asked for, and none
\* has a lower one when "asc" is), and page 2 is the second of them
C27_PageCutFromSortedList ==
  \A h \in Passing(TransactionsPath), dir \in {"asc", "desc"}, field \in {"orderByAmount", "orderByPrice"} :
    \A ids \in {{orders[i].id : i \in {i \in DOMAIN orders : orders[i].user_id = h.token.id}}} :
      \A num \in {[id \in ids |-> IF field = "orderByAmount" THEN TotalOf(id) ELSE PricesOf(id)]},
         den \in {[id \in ids |-> IF field = "orderByAmount" \/ ItemsOf(id) = {} THEN 1
                                  ELSE Cardinality(ItemsOf(id))]} :
        \A page \in 1..2 :
          \A t \in {getAllTransactionsOwnRes(h, [NoQuery EXCEPT !.page = Num(Whole(page)),
                                                               !.limit = Num(Whole(1)),
                                                               ![field] = dir]).data} :
            /\ Len(t) = IF Cardinality(ids) >= page THEN 1 ELSE 0
            /\ Len(t) = 1 =>
                 \* the orders that come before the listed one in the order asked for
                 Cardinality({x \in ids :
                                IF dir = "asc" THEN num[x] * den[t[1].id] < num[t[1].id] * den[x]
                                ELSE num[x] * den[t[1].id] > num[t[1].id] * den[x]}) < page

\* what the code does: a page holds the orders that stand at its positions in
\* the caller's orders listed by id, sorted among themselves
C27_PageCutFromListById ==
  \A h \in Passing(TransactionsPath), dir \in {"asc", "desc"}, field \in {"orderByAmount", "orderByPrice"} :
    \A ids \in {{orders[i].id : i \in {i \in DOMAIN orders : orders[i].user_id = h.token.id}}} :
      \A page \in 1..2 :
        \A t \in {getAllTransactionsOwnRes(h, [NoQuery EXCEPT !.page = Num(Whole(page)),
                                                             !.limit = Num(Whole(1)),
                                                             ![field] = dir]).data} :
          /\ Len(t) = IF Cardinality(ids) >= page THEN 1 ELSE 0
          /\ Len(t) = 1 =>
               Cardinality({x \in ids : IdRank(x) < IdRank(t[1].id)}) = page - 1

\* C28 as stated: no step changes the total or the average price that
\* getAllTransactions (controllers/libraryController.ts) reports to its owner
\* for an order the store already holds (an order of positive quantities)
C28_ReportedTotalsNeverChange ==
  [][\A h \in Passing(TransactionsPath) :
       \A before \in {getAllTransactionsOwnRes(h, NoQuery).data} :
         \A after \in {getAllTransactionsOwnRes(h, NoQuery).data'} :
           \A i \in {i \in DOMAIN before :
                       \A k \in DOMAIN before[i].order_items : before[i].order_items[k].quantity > 0} :
             \E j \in DOMAIN after :
               /\ after[j].id = before[i].id
               /\ after[j].totalAmount = before[i].totalAmount
               /\ after[j].avgPrice.num * before[i].avgPrice.den
                    = before[i].avgPrice.num * after[j].avgPrice.den]_vars

\* C29 as stated: an order that createTransaction, in either controller,
\* writes carries the user id of the token the request came with, and every
\* request that names another user in its body is refused with no row written
C29_OrderOwnedByCaller ==
  \A h \in Passing(TransactionsPath), user_id \in {"u1", "u2"}, items \in ShopItemLists :
    \A r \in {createTransactionRes(h, FreshOrderId, user_id, items),
              createTransactionCheckedRes(h, FreshOrderId, user_id, items)} :
      /\ r.wrote => r.orders[Len(r.orders)].user_id = h.token.id
      /\ user_id # h.token.id => ~r.wrote /\ r.orders = orders /\ r.order_items = order_items

====
